---- MODULE Spec2Model ----
(***************************************************************************)
(* Model of novaclient.client.HTTPClient: the authenticated request        *)
(* wrapper (_cs_request), the authentication state machine (authenticate,  *)
(* _v1_auth, _v2_auth, _extract_service_catalog,                           *)
(* _fetch_endpoints_from_auth) and the session fields they update.         *)
(*                                                                         *)
(* The client is single threaded and blocks on every HTTP call, so a step  *)
(* of the model is the code that runs between two network calls: an        *)
(* operation starts, runs up to the request it sends, and the server's     *)
(* response (chosen by the environment) resumes it.                        *)
(*                                                                         *)
(* A URL is a sequence of tokens ("http://", host, ":", port, "/",         *)
(* segment, ...), string concatenation is \o, None/'' is the empty         *)
(* sequence.  A string-valued field that is None holds NULL.               *)
(*                                                                         *)
(* The variables pc, frame, log and outcome are those of the caller of     *)
(* the client; other holds the same four for a second caller that uses     *)
(* the same client from another thread, where the specification has one.   *)
(*                                                                         *)
(* The variable shell holds one novaclient.shell.DeprecatedAction of the   *)
(* command line parser, with what it printed and what it invoked.          *)
(***************************************************************************)
EXTENDS Naturals, Sequences, FiniteSets, TLC

VARIABLES self, pc, frame, log, outcome, hist, other, shell

vars == <<self, pc, frame, log, outcome, hist, other, shell>>

\* ------------------------------------------------------------------ bounds

\* 305 responses the auth service may give within one authenticate() call
MaxRedirects == 1
\* operations a caller invokes on one client
MaxOps == 2
\* times the parser invokes one DeprecatedAction
MaxCalls == 4

\* ------------------------------------------------------------------ values

NULL == "None"
NoUrl == <<>>

\* the constructor's auth_url arguments
AuthUrlV2 == <<"http://", "keystone", ":", "5000", "/", "v2.0">>
\* a v2.0 auth_url whose host part names no port
AuthUrlNoPort == <<"http://", "keystone", "/", "v2.0">>
AuthUrlV1 == <<"http://", "nova", ":", "8774", "/", "v1.0">>
\* the location a 305 names
RedirectUrl == <<"http://", "keystone2", ":", "5000", "/", "v2.0">>
RedirectUrlV1 == <<"http://", "nova2", ":", "8774", "/", "v1.0">>
\* the constructor's bypass_url arguments (one with trailing slashes)
BypassArg == <<"http://", "override", "/", "v2", "/", "x", "/">>
\* endpoints the service catalog may hold, the v1 management header, and
\* the argument of set_management_url
UrlA == <<"http://", "nova1", "/", "v2", "/", "tena", "/">>
UrlB == <<"http://", "nova2", "/", "v2", "/", "tena">>
UrlH == <<"http://", "nova", ":", "8774", "/", "v1.0", "/">>
UrlX == <<"http://", "other", "/", "v2", "/", "tenx">>

\* path tokens that start with the letter v (part[0] == 'v')
VParts == {"v1.0", "v1.1", "v2", "v2.0", "v3"}

PresetToken == "tok0"
ProxyToken == "ptok"
IssuedTokens == {"tok1", "tok2"}
Paths == {<<"/", "servers">>}

\* ------------------------------------------------------- string helpers

RECURSIVE rstrip(_)
\* str.rstrip('/')
rstrip(u) ==
    IF Len(u) > 0 /\ u[Len(u)] = "/" THEN rstrip(SubSeq(u, 1, Len(u) - 1)) ELSE u

\* the path parts of a URL: the tokens after scheme and netloc that are
\* not separators
PathParts(u) ==
    LET firstSlash == IF \E i \in 1..Len(u) : u[i] = "/"
                      THEN CHOOSE i \in 1..Len(u) :
                              u[i] = "/" /\ \A j \in 1..(i - 1) : u[j] # "/"
                      ELSE Len(u) + 1
    IN  SelectSeq(SubSeq(u, firstSlash, Len(u)), LAMBDA t : t # "/")

\* the port of a URL's netloc, NULL when it names none
PortOf(u) ==
    IF \E i \in 1..Len(u) : u[i] = ":" /\ i < Len(u)
    THEN u[(CHOOSE i \in 1..Len(u) : u[i] = ":") + 1]
    ELSE NULL

\* netloc.replace(':%d' % port, ':35357'), port defaulting to 80
AdminUrl(u) ==
    LET port == IF PortOf(u) = NULL THEN "80" ELSE PortOf(u)
    IN  [i \in 1..Len(u) |->
            IF i > 1 /\ u[i - 1] = ":" /\ u[i] = port THEN "35357" ELSE u[i]]

\* str.find('v2.0') >= 0
HasV20(u) == \E i \in 1..Len(u) : u[i] = "v2.0"

\* ----------------------------------------------------------- exceptions

NoExc == [kind |-> "none", code |-> 0, req |-> 0]
Exc(kind, code, req) == [kind |-> kind, code |-> code, req |-> req]

\* exceptions.from_response: the error kind of a status code
StatusKind(status) ==
    CASE status = 400 -> "BadRequest"
      [] status = 401 -> "Unauthorized"
      [] status = 403 -> "Forbidden"
      [] status = 404 -> "NotFound"
      [] status = 409 -> "Conflict"
      [] status = 413 -> "OverLimit"
      [] status = 422 -> "UnprocessableEntity"
      [] status = 429 -> "OverLimit"
      [] status = 500 -> "InternalServerError"
      [] OTHER -> "ClientException"

from_response(status, req) == Exc(StatusKind(status), status, req)

\* ------------------------------------------------------ service catalog

Endpoint(type, region, iface, url) ==
    [type |-> type, region |-> region, iface |-> iface, url |-> url]

\* a parsed access body; wellformed = FALSE: a required key is missing
Catalog(wellformed, token, tenant, endpoints) ==
    [none |-> FALSE, wellformed |-> wellformed, token |-> token,
     tenant |-> tenant, endpoints |-> endpoints]

\* service_catalog = None, and the body of a response that carries no catalog
NoCatalog ==
    [none |-> TRUE, wellformed |-> FALSE, token |-> NULL, tenant |-> NULL,
     endpoints |-> <<>>]

EndpointsA == <<Endpoint("compute", "r1", "publicURL", UrlA),
                Endpoint("volume", "r1", "publicURL", UrlX)>>
EndpointsB == <<Endpoint("compute", "r1", "publicURL", UrlB)>>
EndpointsTwo == <<Endpoint("compute", "r1", "publicURL", UrlA),
                  Endpoint("compute", "r2", "publicURL", UrlB)>>
EndpointsNone == <<Endpoint("volume", "r1", "publicURL", UrlX)>>

\* ServiceCatalog.url_for: the one endpoint that matches the filter
Matching(cat, service_type, region, endpoint_type) ==
    SelectSeq(cat.endpoints,
              LAMBDA e : /\ e.type = service_type
                         /\ (region = NULL \/ e.region = region)
                         /\ e.iface = endpoint_type)

url_for(cat, service_type, region, endpoint_type) ==
    LET m == Matching(cat, service_type, region, endpoint_type)
    IN  IF ~cat.wellformed THEN [exc |-> Exc("KeyError", 0, 0), url |-> NoUrl]
        ELSE IF Len(m) = 0
        THEN [exc |-> Exc("EndpointNotFound", 0, 0), url |-> NoUrl]
        ELSE IF Len(m) > 1
        THEN [exc |-> Exc("AmbiguousEndpoints", 0, 0), url |-> NoUrl]
        ELSE [exc |-> NoExc, url |-> m[1].url]

\* ------------------------------------------------------------ responses

\* a server response: status, the kind of its text, its parsed body (a
\* catalog, for the auth service), and the headers the client reads
Response(status, text, body, location, mgmt, token) ==
    [status |-> status, text |-> text, body |-> body, location |-> location,
     mgmt |-> mgmt, token |-> token]

Plain(status, text) == Response(status, text, NoCatalog, NoUrl, NoUrl, NULL)

ApiResponses ==
    {Plain(200, "json"), Plain(204, ""), Plain(401, "json"), Plain(404, "json"),
     Plain(400, "Connection refused"), Plain(400, "actively refused"),
     Plain(400, "json: Connection refused"), Plain(400, "json"), Plain(400, ""),
     Plain(200, "not json"), Plain(500, "not json")}

AccessBodies ==
    {Catalog(TRUE, "tok1", "tena", EndpointsA),
     Catalog(TRUE, "tok2", "tena", EndpointsB),
     Catalog(TRUE, "tok1", "tena", EndpointsTwo),
     Catalog(TRUE, "tok1", "tena", EndpointsNone),
     Catalog(FALSE, NULL, NULL, <<>>)}

V2Responses(location) ==
    {Response(200, "json", b, NoUrl, NoUrl, NULL) : b \in AccessBodies}
    \cup {Response(305, "", NoCatalog, location, NoUrl, NULL),
          Plain(401, "json"), Plain(500, "json"), Plain(202, "")}

V1Responses ==
    {Response(204, "", NoCatalog, NoUrl, UrlH, t) : t \in IssuedTokens}
    \cup {Response(200, "", NoCatalog, NoUrl, UrlH, NULL),
          Response(204, "", NoCatalog, NoUrl, NoUrl, "tok1"),
          Response(305, "", NoCatalog, RedirectUrlV1, NoUrl, NULL),
          Plain(401, "json"), Plain(500, "json"), Plain(202, "")}

\* the response texts of the model: which of them json.loads decodes, and
\* which contain 'Connection refused' or 'actively refused'
IsJson(text) == text \in {"json", "json: Connection refused"}
MentionsRefusal(text) ==
    text \in {"Connection refused", "actively refused", "json: Connection refused"}

\* request with the test of line 384 left out: a refused connection is an
\* ordinary 400
request_no_refusal(resp, req) ==
    IF resp.status >= 400 THEN from_response(resp.status, req) ELSE NoExc

\* HTTPClient.request, after the response arrived: the error it raises
request(resp, req) ==
    IF resp.text # "" /\ resp.status = 400 /\ MentionsRefusal(resp.text)
    THEN Exc("ConnectionRefused", 400, req)
    ELSE IF resp.status >= 400 THEN from_response(resp.status, req)
    ELSE NoExc

\* HTTPClient.request: the body it returns with the response (lines
\* 377-393), None when the text is empty or json.loads raises ValueError
request_body(resp) ==
    IF resp.text # "" /\ IsJson(resp.text) THEN "decoded" ELSE NULL

\* ------------------------------------------------------ the secret store

\* the value SecretsHelper.save writes to the keyring:
\* "|".join([auth_token, management_url, tenant_id])
keyring_block(auth_token, management_url, tenant_id) ==
    <<auth_token, "|">> \o management_url \o <<"|", tenant_id>>

\* the positions of the separators block.split('|', 2) splits at
FirstBar(block) ==
    CHOOSE i \in 1..Len(block) :
        block[i] = "|" /\ \A j \in 1..(i - 1) : block[j] # "|"
SecondBar(block) ==
    CHOOSE i \in (FirstBar(block) + 1)..Len(block) :
        block[i] = "|" /\ \A j \in (FirstBar(block) + 1)..(i - 1) : block[j] # "|"

\* SecretsHelper.auth_token and SecretsHelper.management_url: the parts of
\* the stored block, None when nothing is stored
block_token(block) ==
    IF block = <<>> THEN <<>> ELSE SubSeq(block, 1, FirstBar(block) - 1)
block_management_url(block) ==
    IF block = <<>> THEN <<>>
    ELSE SubSeq(block, FirstBar(block) + 1, SecondBar(block) - 1)

\* keyring_saver = None
NoSaver == [present |-> FALSE, calls |-> <<>>, writes |-> <<>>]
\* the SecretsHelper the shell installs as keyring_saver: the arguments of
\* the save() calls made on it and the blocks it wrote to the keyring
SecretsHelper == [present |-> TRUE, calls |-> <<>>, writes |-> <<>>]

\* the block in the keyring
Stored(k) == IF k.writes = <<>> THEN <<>> ELSE k.writes[Len(k.writes)]

\* save() is called on the saver k with these arguments
save_called(k, auth_token, management_url, tenant_id) ==
    [k EXCEPT !.calls = Append(@, <<auth_token, management_url, tenant_id>>)]

\* SecretsHelper.save
SecretsHelper_save(k, os_cache, auth_token, management_url, tenant_id) ==
    LET k1 == save_called(k, auth_token, management_url, tenant_id)
    IN  IF ~os_cache THEN [k |-> k1, exc |-> NoExc]
        ELSE IF /\ <<auth_token>> = block_token(Stored(k))
                /\ management_url = block_management_url(Stored(k))
        THEN [k |-> k1, exc |-> NoExc]
        ELSE IF management_url = NoUrl \/ auth_token = NULL \/ tenant_id = NULL
        THEN [k |-> k1, exc |-> Exc("ValueError", 0, 0)]
        ELSE [k |-> [k1 EXCEPT !.writes =
                               Append(@, keyring_block(auth_token, management_url,
                                                       tenant_id))],
              exc |-> NoExc]

\* ------------------------------------------------------------ transport

\* '%s://%s' % (scheme, netloc): the tokens of a URL before its path
Origin(url) ==
    IF \E i \in 1..Len(url) : url[i] = "/"
    THEN SubSeq(url, 1, (CHOOSE i \in 1..Len(url) :
                            url[i] = "/" /\ \A j \in 1..(i - 1) : url[j] # "/") - 1)
    ELSE url

\* the transport fields of a client built with connection_pool=False:
\* whether it has a _ClientConnectionPool (pool), the pool's _adapters as
\* the sequence of their service URLs in the order of creation (the k-th
\* adapter object is the one made for adapters[k]), _session as the number
\* of the Session object (0: None; the n-th Session made is n), the
\* Sessions made and closed so far, the adapter mounted on _session
\* (0: none of the pool's), and _current_url
NoPool ==
    [pool |-> FALSE, adapters |-> <<>>, session |-> 0, made |-> 0,
     closed |-> {}, mounted |-> 0, current_url |-> NoUrl]

\* the transport fields of a client built with connection_pool=True
Pooled == [NoPool EXCEPT !.pool = TRUE]

\* the adapter object the pool holds for a service URL
AdapterOf(adapters, url) == CHOOSE k \in DOMAIN adapters : adapters[k] = url

\* get() without the test of line 80: an adapter is made on every call
pool_get_always_new(adapters, url) == Append(adapters, url)

\* _ClientConnectionPool.get: the pool's _adapters after get(url)
pool_get(adapters, url) ==
    IF \E k \in DOMAIN adapters : adapters[k] = url THEN adapters
    ELSE Append(adapters, url)

\* HTTPClient.open_session
open_session(t) ==
    IF ~t.pool THEN [t EXCEPT !.made = @ + 1, !.session = t.made + 1, !.mounted = 0]
    ELSE t

\* HTTPClient.close_session
close_session(t) ==
    IF t.session # 0 /\ ~t.pool
    THEN [t EXCEPT !.closed = @ \cup {t.session}, !.session = 0, !.mounted = 0]
    ELSE t

\* _get_session without the test of line 337: every request makes a new
\* Session
get_session_always_new(t, url) ==
    IF t.pool
    THEN LET a == pool_get(t.adapters, Origin(url))
         IN  [t EXCEPT !.closed = IF t.session # 0 THEN @ \cup {t.session} ELSE @,
                       !.current_url = Origin(url),
                       !.made = @ + 1,
                       !.session = t.made + 1,
                       !.adapters = a,
                       !.mounted = AdapterOf(a, Origin(url))]
    ELSE t

\* HTTPClient._get_session: the transport fields after it; the Session it
\* returns is the session field (0: None, the request goes through
\* requests.request)
get_session(t, url) ==
    IF t.pool /\ t.current_url # Origin(url)
    THEN LET a == pool_get(t.adapters, Origin(url))
         IN  [t EXCEPT !.closed = IF t.session # 0 THEN @ \cup {t.session} ELSE @,
                       !.current_url = Origin(url),
                       !.made = @ + 1,
                       !.session = t.made + 1,
                       !.adapters = a,
                       !.mounted = AdapterOf(a, Origin(url))]
    ELSE t

\* --------------------------------------------------------- the client

\* __init__ with "self.management_url = None" at line 188
HTTPClient_no_bypass_mgmt(auth_url, bypass_url, proxy_token, auth_token) ==
    [projectid |-> "proj", tenant_id |-> NULL,
     auth_url |-> rstrip(auth_url), version |-> "v1.1",
     region_name |-> NULL, endpoint_type |-> "publicURL",
     service_type |-> "compute",
     bypass_url |-> rstrip(bypass_url), os_cache |-> FALSE,
     http_log_debug |-> FALSE,
     management_url |-> NoUrl, auth_token |-> auth_token,
     proxy_token |-> proxy_token, proxy_tenant_id |-> "ptenant",
     keyring_saver |-> NoSaver, keyring_saved |-> FALSE,
     transport |-> NoPool,
     service_catalog |-> NoCatalog, services_url |-> {}]

\* HTTPClient.__init__
HTTPClient(auth_url, bypass_url, proxy_token, auth_token) ==
    [projectid |-> "proj", tenant_id |-> NULL,
     auth_url |-> rstrip(auth_url), version |-> "v1.1",
     region_name |-> NULL, endpoint_type |-> "publicURL",
     service_type |-> "compute",
     bypass_url |-> rstrip(bypass_url), os_cache |-> FALSE,
     http_log_debug |-> FALSE,
     management_url |-> rstrip(bypass_url), auth_token |-> auth_token,
     proxy_token |-> proxy_token, proxy_tenant_id |-> "ptenant",
     keyring_saver |-> NoSaver, keyring_saved |-> FALSE,
     transport |-> NoPool,
     service_catalog |-> NoCatalog, services_url |-> {}]

\* unauthenticate without line 231: the token is kept
unauthenticate_keeps_token(c) == [c EXCEPT !.management_url = NoUrl]

\* HTTPClient.unauthenticate
unauthenticate(c) == [c EXCEPT !.management_url = NoUrl, !.auth_token = NULL]

\* HTTPClient.set_management_url
set_management_url(c, url) == [c EXCEPT !.management_url = url]

\* HTTPClient._save_keys; the arguments it passes are all set, so save()
\* does not raise its ValueError
save_keys(c) ==
    IF /\ c.keyring_saver.present /\ c.os_cache /\ ~c.keyring_saved
       /\ c.auth_token # NULL /\ c.management_url # NoUrl /\ c.tenant_id # NULL
    THEN LET r == SecretsHelper_save(c.keyring_saver, c.os_cache, c.auth_token,
                                     c.management_url, c.tenant_id)
         IN  [c EXCEPT !.keyring_saver = r.k, !.keyring_saved = (r.exc = NoExc)]
    ELSE c

\* HTTPClient.get_service_url: the memoized catalog URL of a service type
get_service_url(c, service_type) ==
    IF \E p \in c.services_url : p[1] = service_type
    THEN [c |-> c, exc |-> NoExc,
          url |-> (CHOOSE p \in c.services_url : p[1] = service_type)[2]]
    ELSE LET r == url_for(c.service_catalog, service_type, c.region_name,
                          c.endpoint_type)
         IN  IF r.exc # NoExc THEN [c |-> c, exc |-> r.exc, url |-> NoUrl]
             ELSE [c |-> [c EXCEPT !.services_url =
                                   @ \cup {<<service_type, rstrip(r.url)>>}],
                   exc |-> NoExc, url |-> rstrip(r.url)]

\* extract_service_catalog without lines 488-489: the token of the
\* response is not taken
extract_service_catalog_keeps_token(c, url, resp, extract_token) ==
    IF resp.status \in {200, 201}
    THEN LET c1 == [c EXCEPT !.auth_url = url, !.service_catalog = resp.body]
             g == get_service_url(c1, c1.service_type)
         IN  IF extract_token /\ ~resp.body.wellformed
             THEN [c |-> c1, exc |-> Exc("AuthorizationFailure", 0, 0),
                   ret |-> NoUrl]
             ELSE IF g.exc.kind = "KeyError"
             THEN [c |-> c1, exc |-> Exc("AuthorizationFailure", 0, 0),
                   ret |-> NoUrl]
             ELSE IF g.exc # NoExc THEN [c |-> c1, exc |-> g.exc, ret |-> NoUrl]
             ELSE [c |-> [g.c EXCEPT !.management_url = g.url], exc |-> NoExc,
                   ret |-> NoUrl]
    ELSE IF resp.status = 305
    THEN [c |-> c, exc |-> NoExc, ret |-> resp.location]
    ELSE [c |-> c, exc |-> from_response(resp.status, 0), ret |-> NoUrl]

\* extract_service_catalog with one handler for every lookup error: the
\* catalog errors become AuthorizationFailure
extract_service_catalog_converts(c, url, resp, extract_token) ==
    IF resp.status \in {200, 201}
    THEN LET c1 == [c EXCEPT !.auth_url = url, !.service_catalog = resp.body]
             c2 == IF extract_token
                   THEN [c1 EXCEPT !.auth_token = resp.body.token,
                                   !.tenant_id = resp.body.tenant]
                   ELSE c1
             g == get_service_url(c2, c2.service_type)
         IN  IF extract_token /\ ~resp.body.wellformed
             THEN [c |-> c1, exc |-> Exc("AuthorizationFailure", 0, 0),
                   ret |-> NoUrl]
             ELSE IF g.exc # NoExc
             THEN [c |-> c2, exc |-> Exc("AuthorizationFailure", 0, 0),
                   ret |-> NoUrl]
             ELSE [c |-> [g.c EXCEPT !.management_url = g.url], exc |-> NoExc,
                   ret |-> NoUrl]
    ELSE IF resp.status = 305
    THEN [c |-> c, exc |-> NoExc, ret |-> resp.location]
    ELSE [c |-> c, exc |-> from_response(resp.status, 0), ret |-> NoUrl]

\* HTTPClient._extract_service_catalog: the client after it, the error it
\* raises, the location it returns (NoUrl for None)
extract_service_catalog(c, url, resp, extract_token) ==
    IF resp.status \in {200, 201}
    THEN LET c1 == [c EXCEPT !.auth_url = url, !.service_catalog = resp.body]
             c2 == IF extract_token
                   THEN [c1 EXCEPT !.auth_token = resp.body.token,
                                   !.tenant_id = resp.body.tenant]
                   ELSE c1
             g == get_service_url(c2, c2.service_type)
         IN  IF extract_token /\ ~resp.body.wellformed
             THEN [c |-> c1, exc |-> Exc("AuthorizationFailure", 0, 0),
                   ret |-> NoUrl]
             ELSE IF g.exc.kind = "KeyError"
             THEN [c |-> c2, exc |-> Exc("AuthorizationFailure", 0, 0),
                   ret |-> NoUrl]
             ELSE IF g.exc # NoExc THEN [c |-> c2, exc |-> g.exc, ret |-> NoUrl]
             ELSE [c |-> [g.c EXCEPT !.management_url = g.url], exc |-> NoExc,
                   ret |-> NoUrl]
    ELSE IF resp.status = 305
    THEN [c |-> c, exc |-> NoExc, ret |-> resp.location]
    ELSE [c |-> c, exc |-> from_response(resp.status, 0), ret |-> NoUrl]

\* the version authenticate() parses from auth_url: the first path part
\* that starts with 'v', else the version already held
ParseVersion(c) ==
    LET parts == SelectSeq(PathParts(c.auth_url), LAMBDA t : t \in VParts)
    IN  IF Len(parts) > 0 THEN parts[1] ELSE c.version

\* ------------------------------------------------------------ debug log

\* hashlib.sha1(value).hexdigest() on the secrets of the model
SHA1 ==
    [v \in {"tok0", "tok1", "tok2", "ptok", "password"} |->
        CASE v = "tok0" -> "9f1c"
          [] v = "tok1" -> "5b0e"
          [] v = "tok2" -> "c37a"
          [] v = "ptok" -> "e2d4"
          [] OTHER -> "7a88"]

\* _redact with no text: "{SHA1}" + the digest of the value; a value of
\* None has no encode() and raises AttributeError
redact(value) ==
    IF value = NULL THEN [exc |-> Exc("AttributeError", 0, 0), text |-> NULL]
    ELSE [exc |-> NoExc, text |-> <<"{SHA1}", SHA1[value]>>]

\* a REQ line of the debug log: the URL of the curl command, the value
\* shown for the X-Auth-Token header (NULL: no such header) and the
\* credential shown in the -d data (NULL: no data); NoLine: nothing logged
DebugLine(url, header, data) == [curl |-> url, header |-> header, data |-> data]
NoLine == DebugLine(NoUrl, NULL, NULL)

\* the requests that carry an X-Auth-Token header
CarriesToken(kind) == kind \in {"api", "endpoints"}

\* the -d data of a request: only the POST of _v2_auth has a body, and of
\* its credentials only the password is redacted
LoggedData(kind, cred) ==
    IF kind # "auth_v2" THEN NULL
    ELSE IF cred = "password" THEN redact(cred).text ELSE <<cred>>

\* http_log_req with line 291 left out: the header is logged as it is
http_log_req_plain(c, kind, url, token, cred) ==
    IF ~c.http_log_debug THEN [exc |-> NoExc, line |-> NoLine]
    ELSE [exc |-> NoExc,
          line |-> DebugLine(url,
                             IF CarriesToken(kind) THEN token ELSE NULL,
                             LoggedData(kind, cred))]

\* HTTPClient.http_log_req: the line it logs for a request, or the error
\* it raises
http_log_req(c, kind, url, token, cred) ==
    IF ~c.http_log_debug THEN [exc |-> NoExc, line |-> NoLine]
    ELSE IF CarriesToken(kind) /\ redact(token).exc # NoExc
    THEN [exc |-> redact(token).exc, line |-> NoLine]
    ELSE [exc |-> NoExc,
          line |-> DebugLine(url,
                             IF CarriesToken(kind) THEN redact(token).text ELSE NULL,
                             LoggedData(kind, cred))]

\* a RESP line of the debug log: the x-auth-token header it shows (NULL:
\* the response has none) and the token id it shows in the body (NULL: the
\* body shown has none); NoRespLine: nothing logged
RespLine(header, body) == [header |-> header, body |-> body]
NoRespLine == RespLine(NULL, NULL)

\* HTTPClient.http_log_resp: the headers are logged as they are, the body
\* with access.token.id redacted, and no body for a 400 or a text that is
\* empty or not JSON
http_log_resp(c, resp) ==
    IF ~c.http_log_debug THEN NoRespLine
    ELSE RespLine(resp.token,
                  IF /\ resp.text # "" /\ resp.status # 400 /\ IsJson(resp.text)
                     /\ resp.body.token # NULL
                  THEN redact(resp.body.token).text
                  ELSE NULL)

\* ------------------------------------------------------- log and frame

\* the session fields of a client: what authenticate() is to establish
Session(c) ==
    [auth_token |-> c.auth_token, management_url |-> c.management_url,
     tenant_id |-> c.tenant_id, service_catalog |-> c.service_catalog,
     auth_url |-> c.auth_url]

\* the session fields of no client
NoClient ==
    [auth_token |-> NULL, management_url |-> NoUrl, tenant_id |-> NULL,
     service_catalog |-> NoCatalog, auth_url |-> NoUrl]

\* an entry of the call's log: a request put on the wire (kind "api",
\* "auth_v1", "auth_v2", "endpoints") with its URL, its X-Auth-Token header
\* and the credential of its body ("password" or the token id), or a call
\* of authenticate() / unauthenticate() made within the operation; status
\* is the status of the response to a request, 0 until it arrives, dbg the
\* line http_log_req wrote for it and rdbg the line http_log_resp wrote
\* for its response, session the Session that sent it (0: none, it went
\* through requests.request) and adapter the pooled adapter mounted on
\* that Session
Ev(kind, url, token, cred) ==
    [kind |-> kind, url |-> url, token |-> token, cred |-> cred, status |-> 0,
     dbg |-> NoLine, rdbg |-> NoRespLine, session |-> 0, adapter |-> 0]

\* url = None: the argument of a version-discovery request
PathNone == <<NULL>>

\* the locals of the operation in progress: the public operation (op),
\* whether it is the first one on this client (first), who called
\* authenticate() (ret), _cs_request's url argument (path), its absolute
\* URL (url), kwargs['headers']['X-Auth-Token'] (token), the caught
\* Unauthorized (e), authenticate()'s auth_url and admin_url locals, the
\* 305s followed so far, the body _cs_request returns, and the session
\* fields as they were when authenticate() was last entered (entry)
NewFrame(op, first) ==
    [op |-> op, first |-> first, ret |-> "top", path |-> NoUrl, url |-> NoUrl,
     token |-> NULL, e |-> NoExc, auth_url |-> NoUrl, admin_url |-> NoUrl,
     redirects |-> 0, body |-> NULL, entry |-> Session(NoClient)]

State(c, p, f, l, o) == [self |-> c, pc |-> p, frame |-> f, log |-> l, outcome |-> o]

NoOutcome == [status |-> "none", exc |-> NoExc, req |-> 0]
Returned(req) == [status |-> "returned", exc |-> NoExc, req |-> req]
Raised(exc) == [status |-> "raised", exc |-> exc, req |-> 0]

\* HTTPClient.request up to the network call (lines 351-375): the request
\* is logged and put on the wire, and the operation waits at pc to; an
\* error of http_log_req ends the operation, since neither handler of
\* _cs_request or authenticate catches it
put_on_wire(st, to, f, kind, url, token, cred) ==
    LET h == http_log_req(st.self, kind, url, token, cred)
        t == get_session(st.self.transport, url)
    IN  IF h.exc # NoExc THEN State(st.self, "idle", f, st.log, Raised(h.exc))
        ELSE State([st.self EXCEPT !.transport = t], to, f,
                   Append(st.log, [Ev(kind, url, token, cred)
                                     EXCEPT !.dbg = h.line,
                                            !.session = t.session,
                                            !.adapter = t.mounted]),
                   NoOutcome)

\* tenant identifiers made of [a-z0-9] only, and the v[1-9] version parts
LowerAlnum == {"tena", "tenx", "x"}
VDigit == {"v1", "v2", "v3"}

\* re.sub(r'v[1-9]/[a-z0-9]+$', '', path) on the management URL
StripVersionTenant(u) ==
    IF /\ Len(u) >= 3 /\ u[Len(u)] \in LowerAlnum /\ u[Len(u) - 1] = "/"
       /\ u[Len(u) - 2] \in VDigit
    THEN SubSeq(u, 1, Len(u) - 3)
    ELSE u

\* ------------------------------------------------------- _cs_request

\* cs_url with "if self.service_catalog:" at line 416: the catalog wins
\* over a bypass URL
cs_url_catalog_first(c, path) ==
    IF path = PathNone
    THEN [c |-> c, exc |-> NoExc, url |-> StripVersionTenant(c.management_url)]
    ELSE IF ~c.service_catalog.none
    THEN LET g == get_service_url(c, c.service_type)
         IN  [c |-> g.c, exc |-> g.exc, url |-> g.url \o path]
    ELSE [c |-> c, exc |-> NoExc, url |-> c.management_url \o path]

\* the absolute URL _cs_request builds for a path (lines 408-419); None
\* + url at line 419 is a TypeError
cs_url(c, path) ==
    IF path = PathNone
    THEN [c |-> c, exc |-> NoExc, url |-> StripVersionTenant(c.management_url)]
    ELSE IF ~c.service_catalog.none /\ c.bypass_url = NoUrl
    THEN LET g == get_service_url(c, c.service_type)
         IN  [c |-> g.c, exc |-> g.exc, url |-> g.url \o path]
    ELSE IF c.management_url = NoUrl
    THEN [c |-> c, exc |-> Exc("TypeError", 0, 0), url |-> NoUrl]
    ELSE [c |-> c, exc |-> NoExc, url |-> c.management_url \o path]

\* _cs_request from line 408 to the first attempt's request
cs_first_send(st) ==
    LET u == cs_url(st.self, st.frame.path)
    IN  IF u.exc # NoExc
        THEN State(u.c, "idle", st.frame, st.log, Raised(u.exc))
        ELSE put_on_wire([st EXCEPT !.self = u.c], "req_first",
                         [st.frame EXCEPT !.url = u.url, !.token = u.c.auth_token],
                         "api", u.url, u.c.auth_token, NULL)

\* cs_retry_send without line 439: the retry goes out with the header of
\* the first attempt
cs_retry_send_stale(st) ==
    put_on_wire(st, "req_retry", st.frame, "api", st.frame.url, st.frame.token, NULL)

\* _cs_request lines 439-440: the retry, with the header set again
cs_retry_send(st) ==
    put_on_wire(st, "req_retry", [st.frame EXCEPT !.token = st.self.auth_token],
                "api", st.frame.url, st.self.auth_token, NULL)

\* ------------------------------------------------------ authenticate

\* the frame when authenticate() is left
Left(f) == [f EXCEPT !.entry = Session(NoClient)]

\* authenticate() returned: back in its caller
authenticate_returned(st) ==
    CASE st.frame.ret = "cs_first" -> cs_first_send([st EXCEPT !.frame = Left(@)])
      [] st.frame.ret = "cs_retry" -> cs_retry_send([st EXCEPT !.frame = Left(@)])
      [] OTHER -> State(st.self, "idle", Left(st.frame), st.log, Returned(0))

\* authenticate_raised with "except Exception" at line 442: the 401
\* handler replaces every error of the re-authentication by the caught one
authenticate_raised_any(st, exc) ==
    IF st.frame.ret = "cs_retry"
    THEN State(st.self, "idle", Left(st.frame), st.log, Raised(st.frame.e))
    ELSE State(st.self, "idle", Left(st.frame), st.log, Raised(exc))

\* authenticate() raised exc: in the 401 handler an Unauthorized is
\* replaced by the caught one (line 442), everything else propagates
authenticate_raised(st, exc) ==
    IF st.frame.ret = "cs_retry" /\ exc.kind = "Unauthorized"
    THEN State(st.self, "idle", Left(st.frame), st.log, Raised(st.frame.e))
    ELSE State(st.self, "idle", Left(st.frame), st.log, Raised(exc))

\* the credential _v2_auth puts in the body
v2_cred(c) == IF c.auth_token # NULL THEN c.auth_token ELSE "password"

\* _v2_auth / _authenticate up to the POST to url + "/tokens"
v2_send(st, url, to) ==
    put_on_wire(st, to, [st.frame EXCEPT !.auth_url = url],
                "auth_v2", url \o <<"/", "tokens">>, NULL, v2_cred(st.self))

\* _v1_auth up to the GET
v1_send(st, url) ==
    IF st.self.proxy_token # NULL
    THEN authenticate_raised(st, Exc("NoTokenLookupException", 0, 0))
    ELSE put_on_wire(st, "auth_v1", [st.frame EXCEPT !.auth_url = url],
                     "auth_v1", url, NULL, "password")

\* authenticate() lines 588-593
authenticate_tail(st) ==
    LET c == st.self
    IN  IF c.bypass_url # NoUrl
        THEN authenticate_returned(
                 [st EXCEPT !.self = save_keys(set_management_url(c, c.bypass_url))])
        ELSE IF c.management_url = NoUrl
        THEN authenticate_raised(st, Exc("Unauthorized", 0, 0))
        ELSE authenticate_returned([st EXCEPT !.self = save_keys(c)])

\* authenticate without the test of lines 546-548: it never short-circuits
authenticate_no_shortcut(st, ret) ==
    LET c == st.self
        c1 == [c EXCEPT !.version = ParseVersion(c)]
        st1 == [st EXCEPT !.frame.ret = ret, !.frame.redirects = 0,
                          !.frame.entry = Session(c),
                          !.frame.admin_url = AdminUrl(c.auth_url),
                          !.log = Append(@, Ev("authenticate", NoUrl, NULL, NULL))]
    IN  IF c.auth_url = NoUrl
        THEN authenticate_raised(st1, Exc("AuthorizationFailure", 0, 0))
        ELSE IF c1.version = "v2.0"
        THEN v2_send([st1 EXCEPT !.self = c1], c1.auth_url, "auth_v2")
        ELSE v1_send([st1 EXCEPT !.self = c1], c1.auth_url)

\* authenticate without the test of lines 531-534: a missing auth_url is
\* not noticed
authenticate_no_url_check(st, ret) ==
    LET c == st.self
        c1 == [c EXCEPT !.version = ParseVersion(c)]
        st1 == [st EXCEPT !.frame.ret = ret, !.frame.redirects = 0,
                          !.frame.entry = Session(c),
                          !.frame.admin_url = AdminUrl(c.auth_url),
                          !.log = Append(@, Ev("authenticate", NoUrl, NULL, NULL))]
    IN  IF c1.auth_token # NULL /\ c1.management_url # NoUrl
        THEN authenticate_returned([st1 EXCEPT !.self = save_keys(c1)])
        ELSE IF c1.version = "v2.0"
        THEN v2_send([st1 EXCEPT !.self = c1], c1.auth_url, "auth_v2")
        ELSE v1_send([st1 EXCEPT !.self = c1], c1.auth_url)

\* authenticate() from its entry to its first request (lines 530-562, 579)
authenticate(st, ret) ==
    LET c == st.self
        c1 == [c EXCEPT !.version = ParseVersion(c)]
        st1 == [st EXCEPT !.frame.ret = ret, !.frame.redirects = 0,
                          !.frame.entry = Session(c),
                          !.frame.admin_url = AdminUrl(c.auth_url),
                          !.log = Append(@, Ev("authenticate", NoUrl, NULL, NULL))]
    IN  IF c.auth_url = NoUrl
        THEN authenticate_raised(st1, Exc("AuthorizationFailure", 0, 0))
        ELSE IF c1.auth_token # NULL /\ c1.management_url # NoUrl
        THEN authenticate_returned([st1 EXCEPT !.self = save_keys(c1)])
        ELSE IF c1.version = "v2.0"
        THEN v2_send([st1 EXCEPT !.self = c1], c1.auth_url, "auth_v2")
        ELSE v1_send([st1 EXCEPT !.self = c1], c1.auth_url)

\* the URL of _fetch_endpoints_from_auth
endpoints_url(c, url) ==
    url \o <<"/", "tokens", "/", c.proxy_token, "?belongsTo=", c.proxy_tenant_id>>

\* authenticate() lines 564-575: after the v2 loop
after_v2_loop(st) ==
    LET c == st.self
    IN  IF c.proxy_token = NULL THEN authenticate_tail(st)
        ELSE IF c.bypass_url # NoUrl
        THEN authenticate_tail(
                 [st EXCEPT !.self = [set_management_url(c, c.bypass_url)
                                        EXCEPT !.auth_token = c.proxy_token]])
        ELSE put_on_wire(st, "auth_fetch",
                         [st.frame EXCEPT !.auth_url =
                                            endpoints_url(c, st.frame.admin_url)],
                         "endpoints", endpoints_url(c, st.frame.admin_url),
                         c.auth_token, NULL)

\* the response to the POST of the v2 loop (lines 558-562)
v2_response(st, resp) ==
    LET r == request(resp, Len(st.log))
        x == extract_service_catalog(st.self, st.frame.auth_url, resp, TRUE)
        st1 == [st EXCEPT !.self = x.c]
    IN  IF r # NoExc THEN authenticate_raised(st, r)
        ELSE IF x.exc # NoExc THEN authenticate_raised(st1, x.exc)
        ELSE IF x.ret # NoUrl
        THEN v2_send([st1 EXCEPT !.frame.redirects = @ + 1], x.ret, "auth_v2")
        ELSE after_v2_loop(st1)

\* endpoints_response without line 575: the admin token stays
endpoints_response_keeps_admin(st, resp) ==
    LET r == request(resp, Len(st.log))
        x == extract_service_catalog(st.self, st.frame.auth_url, resp, FALSE)
    IN  IF r # NoExc THEN authenticate_raised(st, r)
        ELSE IF x.exc # NoExc
        THEN authenticate_raised([st EXCEPT !.self = x.c], x.exc)
        ELSE authenticate_tail([st EXCEPT !.self = x.c])

\* the response to the GET of _fetch_endpoints_from_auth (lines 525-528, 575)
endpoints_response(st, resp) ==
    LET r == request(resp, Len(st.log))
        x == extract_service_catalog(st.self, st.frame.auth_url, resp, FALSE)
    IN  IF r # NoExc THEN authenticate_raised(st, r)
        ELSE IF x.exc # NoExc
        THEN authenticate_raised([st EXCEPT !.self = x.c], x.exc)
        ELSE authenticate_tail(
                 [st EXCEPT !.self = [x.c EXCEPT !.auth_token = x.c.proxy_token]])

\* _v1_auth after the response (lines 616-627)
v1_auth(c, url, resp) ==
    IF resp.status \in {200, 204}
    THEN IF resp.mgmt = NoUrl
         THEN [c |-> c, exc |-> Exc("AuthorizationFailure", 0, 0), ret |-> NoUrl]
         ELSE IF resp.token = NULL
         THEN [c |-> [c EXCEPT !.management_url = rstrip(resp.mgmt)],
               exc |-> Exc("AuthorizationFailure", 0, 0), ret |-> NoUrl]
         ELSE [c |-> [c EXCEPT !.management_url = rstrip(resp.mgmt),
                               !.auth_token = resp.token, !.auth_url = url],
               exc |-> NoExc, ret |-> NoUrl]
    ELSE IF resp.status = 305
    THEN [c |-> c, exc |-> NoExc, ret |-> resp.location]
    ELSE [c |-> c, exc |-> from_response(resp.status, 0), ret |-> NoUrl]

\* v1_response without the handler of lines 583-586: the
\* AuthorizationFailure of _v1_auth reaches the caller
v1_response_no_fallback(st, resp) ==
    LET r == request(resp, Len(st.log))
        x == v1_auth(st.self, st.frame.auth_url, resp)
        st1 == [st EXCEPT !.self = x.c]
    IN  IF r # NoExc THEN authenticate_raised(st, r)
        ELSE IF x.exc # NoExc THEN authenticate_raised(st1, x.exc)
        ELSE IF x.ret # NoUrl
        THEN v1_send([st1 EXCEPT !.frame.redirects = @ + 1], x.ret)
        ELSE authenticate_tail(st1)

\* the response to the GET of the v1 loop (lines 577-586)
v1_response(st, resp) ==
    LET r == request(resp, Len(st.log))
        x == v1_auth(st.self, st.frame.auth_url, resp)
        st1 == [st EXCEPT !.self = x.c]
        url == st.frame.auth_url
    IN  IF r # NoExc THEN authenticate_raised(st, r)
        ELSE IF x.exc.kind = "AuthorizationFailure"
        THEN v2_send(st1, IF HasV20(url) THEN url ELSE url \o <<"/", "v2.0">>,
                     "auth_fallback")
        ELSE IF x.exc # NoExc THEN authenticate_raised(st1, x.exc)
        ELSE IF x.ret # NoUrl
        THEN v1_send([st1 EXCEPT !.frame.redirects = @ + 1], x.ret)
        ELSE authenticate_tail(st1)

\* the response to the POST of the fallback (line 586): the value
\* _v2_auth returns is dropped
fallback_response(st, resp) ==
    LET r == request(resp, Len(st.log))
        x == extract_service_catalog(st.self, st.frame.auth_url, resp, TRUE)
    IN  IF r # NoExc THEN authenticate_raised(st, r)
        ELSE IF x.exc # NoExc
        THEN authenticate_raised([st EXCEPT !.self = x.c], x.exc)
        ELSE authenticate_tail([st EXCEPT !.self = x.c])

\* first_response with "except exceptions.ClientException": every HTTP
\* error of the first attempt starts the re-authentication
first_response_any(st, resp) ==
    LET r == request(resp, Len(st.log))
    IN  IF r = NoExc
        THEN State(st.self, "idle", [st.frame EXCEPT !.body = request_body(resp)],
                   st.log, Returned(Len(st.log)))
        ELSE authenticate(
                 [st EXCEPT !.frame.e = r,
                            !.self = [unauthenticate(st.self)
                                        EXCEPT !.keyring_saved = FALSE],
                            !.log = Append(@, Ev("unauthenticate", NoUrl, NULL,
                                                 NULL))],
                 "cs_retry")

\* first_response without line 437: the saved flag is not reset
first_response_keeps_flag(st, resp) ==
    LET r == request(resp, Len(st.log))
    IN  IF r = NoExc
        THEN State(st.self, "idle", [st.frame EXCEPT !.body = request_body(resp)],
                   st.log, Returned(Len(st.log)))
        ELSE IF r.kind = "Unauthorized"
        THEN authenticate(
                 [st EXCEPT !.frame.e = r,
                            !.self = unauthenticate(st.self),
                            !.log = Append(@, Ev("unauthenticate", NoUrl, NULL,
                                                 NULL))],
                 "cs_retry")
        ELSE State(st.self, "idle", st.frame, st.log, Raised(r))

\* the response to the first attempt (lines 429-438)
first_response(st, resp) ==
    LET r == request(resp, Len(st.log))
    IN  IF r = NoExc
        THEN State(st.self, "idle", [st.frame EXCEPT !.body = request_body(resp)],
                   st.log, Returned(Len(st.log)))
        ELSE IF r.kind = "Unauthorized"
        THEN authenticate(
                 [st EXCEPT !.frame.e = r,
                            !.self = [unauthenticate(st.self)
                                        EXCEPT !.keyring_saved = FALSE],
                            !.log = Append(@, Ev("unauthenticate", NoUrl, NULL,
                                                 NULL))],
                 "cs_retry")
        ELSE State(st.self, "idle", st.frame, st.log, Raised(r))

\* retry_response with "raise" in place of "raise e": the retry's own
\* Unauthorized reaches the caller
retry_response_reraise(st, resp) ==
    LET r == request(resp, Len(st.log))
    IN  IF r = NoExc
        THEN State(st.self, "idle", [st.frame EXCEPT !.body = request_body(resp)],
                   st.log, Returned(Len(st.log)))
        ELSE State(st.self, "idle", st.frame, st.log, Raised(r))

\* the response to the retry (lines 440-443)
retry_response(st, resp) ==
    LET r == request(resp, Len(st.log))
    IN  IF r = NoExc
        THEN State(st.self, "idle", [st.frame EXCEPT !.body = request_body(resp)],
                   st.log, Returned(Len(st.log)))
        ELSE IF r.kind = "Unauthorized"
        THEN State(st.self, "idle", st.frame, st.log, Raised(st.frame.e))
        ELSE State(st.self, "idle", st.frame, st.log, Raised(r))

\* _cs_request from its entry (lines 405-407)
cs_request(st, path) ==
    IF st.self.management_url = NoUrl
    THEN authenticate([st EXCEPT !.frame.path = path], "cs_first")
    ELSE cs_first_send([st EXCEPT !.frame.path = path])

\* ----------------------------------------------------- DeprecatedAction

\* the option strings one deprecated option is registered under
OptionStrings == {"--old", "-o", "--legacy"}

\* the real_action arguments of the constructor: the special "nothing",
\* None, the name of a standard action, a name the parser does not know,
\* and an action class
RealActionArgs == {"nothing", NULL, "store_true", "bogus", "class"}
IsName(real_action) == real_action \in {NULL, "store_true", "bogus"}

\* ArgumentParser._registry_get('action', name): the action class
\* registered under the name (None is registered as store), or None
registry_get(name) ==
    IF name = NULL THEN "store"
    ELSE IF name = "store_true" THEN "store_true"
    ELSE NULL

\* what self.real_action holds: None, a name yet to be looked up, or an
\* instance of an action class
NoAction == [kind |-> "none", class |-> NULL]
Named(name) == [kind |-> "name", class |-> name]
Instance(class) == [kind |-> "instance", class |-> class]

\* DeprecatedAction.__init__
DeprecatedAction(real_action, use) ==
    [emitted |-> {},
     use |-> use,
     real_action_args |-> IsName(real_action),
     real_action |-> IF real_action = "nothing" THEN NoAction
                     ELSE IF IsName(real_action) THEN Named(real_action)
                     ELSE Instance(real_action)]

\* the lines printed to stderr
Deprecated(option_string, use) ==
    [warning |-> "deprecated", option |-> option_string, use |-> use]
UnknownRealAction(name) ==
    [warning |-> "unknown real action", option |-> name, use |-> NULL]

\* a DeprecatedAction a, what was printed to stderr, the option strings
\* its real action was invoked with, and the option strings it was itself
\* invoked with
Shell(a, stderr, invoked, calls) ==
    [a |-> a, stderr |-> stderr, invoked |-> invoked, calls |-> calls]
NoShell == Shell(DeprecatedAction("nothing", NULL), <<>>, <<>>, <<>>)

\* DeprecatedAction._get_action: the action is looked up on the first
\* call and kept
get_action(sh) ==
    IF ~sh.a.real_action_args THEN sh
    ELSE LET action_class == registry_get(sh.a.real_action.class)
         IN  IF action_class = NULL
             THEN [sh EXCEPT !.stderr = Append(@, UnknownRealAction(sh.a.real_action.class)),
                             !.a.real_action = NoAction,
                             !.a.real_action_args = FALSE]
             ELSE [sh EXCEPT !.a.real_action = Instance(action_class),
                             !.a.real_action_args = FALSE]

\* __call__ with line 207 left out: the option string is not remembered
call_forgets(sh, option_string) ==
    LET s1 == get_action(sh)
        s2 == IF option_string \in s1.a.emitted THEN s1
              ELSE [s1 EXCEPT !.stderr = Append(@, Deprecated(option_string, s1.a.use))]
    IN  [s2 EXCEPT !.invoked = IF s2.a.real_action = NoAction THEN @
                                ELSE Append(@, option_string),
                   !.calls = Append(@, option_string)]

\* DeprecatedAction.__call__
call(sh, option_string) ==
    LET s1 == get_action(sh)
        s2 == IF option_string \in s1.a.emitted THEN s1
              ELSE [s1 EXCEPT !.stderr = Append(@, Deprecated(option_string, s1.a.use)),
                              !.a.emitted = @ \cup {option_string}]
    IN  [s2 EXCEPT !.invoked = IF s2.a.real_action = NoAction THEN @
                                ELSE Append(@, option_string),
                   !.calls = Append(@, option_string)]

\* ---------------------------------------------------------- the machine

Current == State(self, pc, frame, log, outcome)

\* the state when the response to the request in flight has arrived
Received(resp) ==
    State(self, pc, frame,
          [log EXCEPT ![Len(log)].status = resp.status,
                      ![Len(log)].rdbg = http_log_resp(self, resp)],
          outcome)

Start(op) ==
    State(self, "idle", NewFrame(op, frame.op = "none"), <<>>, NoOutcome)

Becomes(st) ==
    /\ self' = st.self
    /\ pc' = st.pc
    /\ frame' = st.frame
    /\ log' = st.log
    /\ outcome' = st.outcome
    /\ other' = other
    /\ shell' = shell

\* a caller that has not called the client
NoCaller ==
    [pc |-> "none", frame |-> NewFrame("none", FALSE), log |-> <<>>,
     outcome |-> NoOutcome]

\* the second caller's view: the shared client and its own locals
OtherState == State(self, other.pc, other.frame, other.log, other.outcome)

OtherReceived(resp) ==
    [OtherState EXCEPT !.log[Len(other.log)].status = resp.status,
                       !.log[Len(other.log)].rdbg = http_log_resp(self, resp)]

OtherBecomes(st) ==
    /\ self' = st.self
    /\ other' = [pc |-> st.pc, frame |-> st.frame, log |-> st.log,
                 outcome |-> st.outcome]
    /\ UNCHANGED <<pc, frame, log, outcome, hist, shell>>

\* _cs_request lines 408-419 run on their own: the absolute URL is built
\* and kept in the local url
cs_build(st) ==
    LET u == cs_url(st.self, st.frame.path)
    IN  IF u.exc # NoExc
        THEN State(u.c, "idle", st.frame, st.log, Raised(u.exc))
        ELSE State(u.c, "cs_header", [st.frame EXCEPT !.url = u.url], st.log,
                   NoOutcome)

\* _cs_request lines 424-428 run on their own: the header is set from
\* self.auth_token and the first attempt is sent
cs_header(st) ==
    put_on_wire(st, "req_first", [st.frame EXCEPT !.token = st.self.auth_token],
                "api", st.frame.url, st.self.auth_token, NULL)

\* the clients the constructor builds
Clients ==
    {HTTPClient(a, b, p, t) :
        a \in {NoUrl, AuthUrlV1, AuthUrlV2, AuthUrlNoPort}, b \in {NoUrl, BypassArg},
        p \in {NULL, ProxyToken}, t \in {NULL, PresetToken}}

\* the state of a newly built client c
InitWith(c) ==
    /\ self = c
    /\ pc = "idle"
    /\ frame = NewFrame("none", FALSE)
    /\ log = <<>>
    /\ outcome = NoOutcome
    /\ hist = [url_set |-> FALSE, ops |-> 0]
    /\ other = NoCaller
    /\ shell = NoShell

Init == \E c \in Clients : InitWith(c)

\* a client built with os_cache=True on which the shell installed its
\* SecretsHelper as keyring_saver
InitKeyring ==
    \E c \in Clients :
        InitWith([c EXCEPT !.os_cache = TRUE, !.keyring_saver = SecretsHelper])

\* a caller invokes authenticate()
Authenticate ==
    /\ pc = "idle"
    /\ hist.ops < MaxOps
    /\ Becomes(authenticate(Start("authenticate"), "top"))
    /\ hist' = [hist EXCEPT !.ops = @ + 1]

\* a caller invokes unauthenticate()
Unauthenticate ==
    /\ pc = "idle"
    /\ hist.ops < MaxOps
    /\ Becomes([Start("unauthenticate") EXCEPT !.self = unauthenticate(self),
                                               !.outcome = Returned(0)])
    /\ hist' = [hist EXCEPT !.ops = @ + 1]

\* a caller invokes set_management_url(url)
SetManagementUrl ==
    /\ pc = "idle"
    /\ hist.ops < MaxOps
    /\ Becomes([Start("set_management_url")
                  EXCEPT !.self = set_management_url(self, UrlX),
                         !.outcome = Returned(0)])
    /\ hist' = [url_set |-> TRUE, ops |-> hist.ops + 1]

\* a caller invokes get/post/put/delete(path)
CsRequest ==
    /\ pc = "idle"
    /\ hist.ops < MaxOps
    /\ \E path \in Paths \cup {PathNone} :
          Becomes(cs_request(Start("cs_request"), path))
    /\ hist' = [hist EXCEPT !.ops = @ + 1]

\* the auth service answers the POST of the v2 loop
RecvV2Auth ==
    /\ pc = "auth_v2"
    /\ \E resp \in V2Responses(RedirectUrl) :
          /\ resp.status = 305 => frame.redirects < MaxRedirects
          /\ Becomes(v2_response(Received(resp), resp))
    /\ UNCHANGED hist

\* the auth service answers the GET of the v1 loop
RecvV1Auth ==
    /\ pc = "auth_v1"
    /\ \E resp \in V1Responses :
          /\ resp.status = 305 => frame.redirects < MaxRedirects
          /\ Becomes(v1_response(Received(resp), resp))
    /\ UNCHANGED hist

\* the auth service answers the POST of the v1-to-v2 fallback
RecvFallback ==
    /\ pc = "auth_fallback"
    /\ \E resp \in V2Responses(RedirectUrl) :
          Becomes(fallback_response(Received(resp), resp))
    /\ UNCHANGED hist

\* the auth service answers the endpoint lookup of proxy-token mode
RecvEndpoints ==
    /\ pc = "auth_fetch"
    /\ \E resp \in V2Responses(RedirectUrl) :
          Becomes(endpoints_response(Received(resp), resp))
    /\ UNCHANGED hist

\* the API answers the first attempt
RecvFirst ==
    /\ pc = "req_first"
    /\ \E resp \in ApiResponses : Becomes(first_response(Received(resp), resp))
    /\ UNCHANGED hist

\* the API answers the retry
RecvRetry ==
    /\ pc = "req_retry"
    /\ \E resp \in ApiResponses : Becomes(retry_response(Received(resp), resp))
    /\ UNCHANGED hist

Next ==
    \/ Authenticate
    \/ Unauthenticate
    \/ SetManagementUrl
    \/ CsRequest
    \/ RecvV2Auth
    \/ RecvV1Auth
    \/ RecvFallback
    \/ RecvEndpoints
    \/ RecvFirst
    \/ RecvRetry

Spec == Init /\ [][Next]_vars

\* the client with the credential cache in use
SpecKeyring == InitKeyring /\ [][Next]_vars

\* a caller invokes open_session()
OpenSession ==
    /\ pc = "idle"
    /\ hist.ops < MaxOps
    /\ Becomes([Start("open_session")
                  EXCEPT !.self = [self EXCEPT !.transport = open_session(@)],
                         !.outcome = Returned(0)])
    /\ hist' = [hist EXCEPT !.ops = @ + 1]

\* a caller invokes close_session()
CloseSession ==
    /\ pc = "idle"
    /\ hist.ops < MaxOps
    /\ Becomes([Start("close_session")
                  EXCEPT !.self = [self EXCEPT !.transport = close_session(@)],
                         !.outcome = Returned(0)])
    /\ hist' = [hist EXCEPT !.ops = @ + 1]

\* the clients of the transport specification: v2.0 clients with and
\* without a connection pool
InitTransport ==
    \E c \in Clients, t \in {NoPool, Pooled} :
        /\ c.auth_token = NULL
        /\ c.auth_url = AuthUrlV2
        /\ InitWith([c EXCEPT !.transport = t])

\* the operations and responses of a client whose auth_url names v2.0
NextTransport ==
    \/ OpenSession
    \/ CloseSession
    \/ Authenticate
    \/ SetManagementUrl
    \/ CsRequest
    \/ RecvV2Auth
    \/ RecvEndpoints
    \/ RecvFirst
    \/ RecvRetry

\* the client and the session operations of its callers
SpecTransport == InitTransport /\ [][NextTransport]_vars

\* the answers of the servers when two callers share the client
FewApiResponses == {Plain(200, "json"), Plain(401, "json"), Plain(500, "not json")}
FewV2Responses ==
    {Response(200, "json", Catalog(TRUE, "tok1", "tena", EndpointsA), NoUrl, NoUrl, NULL),
     Response(200, "json", Catalog(TRUE, "tok2", "tena", EndpointsB), NoUrl, NoUrl, NULL),
     Response(305, "", NoCatalog, RedirectUrl, NoUrl, NULL),
     Plain(401, "json")}

\* the first caller's one call
FirstCall ==
    /\ pc = "idle"
    /\ frame.op = "none"
    /\ \E path \in Paths : Becomes(cs_request(Start("cs_request"), path))
    /\ hist' = [hist EXCEPT !.ops = @ + 1]

\* the auth service answers the first caller's POST
FirstRecvV2Auth ==
    /\ pc = "auth_v2"
    /\ \E resp \in FewV2Responses :
          /\ resp.status = 305 => frame.redirects < MaxRedirects
          /\ Becomes(v2_response(Received(resp), resp))
    /\ UNCHANGED hist

\* the API answers the first caller's first attempt
FirstRecvFirst ==
    /\ pc = "req_first"
    /\ \E resp \in FewApiResponses : Becomes(first_response(Received(resp), resp))
    /\ UNCHANGED hist

\* the API answers the first caller's retry
FirstRecvRetry ==
    /\ pc = "req_retry"
    /\ \E resp \in FewApiResponses : Becomes(retry_response(Received(resp), resp))
    /\ UNCHANGED hist

\* the second caller invokes get/post/put/delete(path)
OtherCall ==
    /\ other.pc = "none"
    /\ \E path \in Paths :
          OtherBecomes(State(self, "cs_check",
                             [NewFrame("cs_request", FALSE) EXCEPT !.path = path],
                             <<>>, NoOutcome))

\* the second caller runs line 406, and authenticate() if the management
\* URL is not set
OtherCheck ==
    /\ other.pc = "cs_check"
    /\ OtherBecomes(IF self.management_url = NoUrl
                    THEN authenticate(OtherState, "cs_first")
                    ELSE [OtherState EXCEPT !.pc = "cs_build"])

\* the second caller builds its URL
OtherBuild ==
    /\ other.pc = "cs_build"
    /\ OtherBecomes(cs_build(OtherState))

\* the second caller sets its header and sends
OtherHeader ==
    /\ other.pc = "cs_header"
    /\ OtherBecomes(cs_header(OtherState))

\* the auth service answers the second caller's POST
OtherRecvV2Auth ==
    /\ other.pc = "auth_v2"
    /\ \E resp \in FewV2Responses :
          /\ resp.status = 305 => other.frame.redirects < MaxRedirects
          /\ OtherBecomes(v2_response(OtherReceived(resp), resp))

\* the API answers the second caller's first attempt
OtherRecvFirst ==
    /\ other.pc = "req_first"
    /\ \E resp \in FewApiResponses :
          OtherBecomes(first_response(OtherReceived(resp), resp))

\* the API answers the second caller's retry
OtherRecvRetry ==
    /\ other.pc = "req_retry"
    /\ \E resp \in FewApiResponses :
          OtherBecomes(retry_response(OtherReceived(resp), resp))

\* the clients two callers share: one that authenticates against v2.0 and
\* one with a token and a bypass URL
InitTwoCallers ==
    \E c \in {HTTPClient(AuthUrlV2, NoUrl, NULL, NULL),
               HTTPClient(AuthUrlV2, BypassArg, NULL, PresetToken)} : InitWith(c)

\* two threads make one call each on one client with no lock: a thread
\* runs from one network call to the next, the second one also stops
\* between the statements of _cs_request that read the session
NextTwoCallers ==
    \/ FirstCall
    \/ FirstRecvV2Auth
    \/ FirstRecvFirst
    \/ FirstRecvRetry
    \/ OtherCall
    \/ OtherCheck
    \/ OtherBuild
    \/ OtherHeader
    \/ OtherRecvV2Auth
    \/ OtherRecvFirst
    \/ OtherRecvRetry

SpecTwoCallers == InitTwoCallers /\ [][NextTwoCallers]_vars

\* bypass_url arguments that end in a version and a tenant: version 2 and
\* version 10, tenant identifiers in lower case and with other characters
DiscoveryUrls ==
    {BypassArg,
     <<"http://", "override", "/", "v2", "/", "tena">>,
     <<"http://", "override", "/", "v10", "/", "tena">>,
     <<"http://", "override", "/", "v2", "/", "Ten-A">>}

\* clients whose management URL is such a bypass URL
InitDiscovery ==
    \E b \in DiscoveryUrls, t \in {NULL, PresetToken} :
        InitWith(HTTPClient(AuthUrlV2, b, NULL, t))

\* the operations and responses of these clients
NextDiscovery ==
    \/ Authenticate
    \/ Unauthenticate
    \/ CsRequest
    \/ RecvV2Auth
    \/ RecvFirst
    \/ RecvRetry

\* version discovery on clients with a bypass URL
SpecDiscovery == InitDiscovery /\ [][NextDiscovery]_vars

\* a client built with http_log_debug=True
InitDebug == \E c \in Clients : InitWith([c EXCEPT !.http_log_debug = TRUE])

\* the client with debug logging on
SpecDebug == InitDebug /\ [][Next]_vars

\* the parser meets one of the option strings of the deprecated option on
\* the command line and invokes the action
Call(option_string) ==
    /\ Len(shell.calls) < MaxCalls
    /\ shell' = call(shell, option_string)
    /\ UNCHANGED <<self, pc, frame, log, outcome, hist, other>>

\* a parser with one deprecated option, before it parses a command line
InitShell ==
    /\ self = HTTPClient(AuthUrlV2, NoUrl, NULL, NULL)
    /\ pc = "idle"
    /\ frame = NewFrame("none", FALSE)
    /\ log = <<>>
    /\ outcome = NoOutcome
    /\ hist = [url_set |-> FALSE, ops |-> 0]
    /\ other = NoCaller
    /\ \E real_action \in RealActionArgs, use \in {NULL, "use --new"} :
            shell = Shell(DeprecatedAction(real_action, use), <<>>, <<>>, <<>>)

NextShell == \E option_string \in OptionStrings : Call(option_string)

SpecShell == InitShell /\ [][NextShell]_vars

\* ------------------------------------------------- reading the call's log

ApiIdx == {i \in DOMAIN log : log[i].kind = "api"}
AuthCallIdx == {i \in DOMAIN log : log[i].kind = "authenticate"}
AuthReqIdx == {i \in DOMAIN log : log[i].kind \in {"auth_v1", "auth_v2", "endpoints"}}
UnauthIdx == {i \in DOMAIN log : log[i].kind = "unauthenticate"}

\* the first attempt and the retry of the call
FirstApi == CHOOSE i \in ApiIdx : \A j \in ApiIdx : i <= j
RetryApi == CHOOSE i \in ApiIdx : \A j \in ApiIdx : j <= i

\* the first attempt and the retry were both answered 401
Both401 ==
    /\ frame.op = "cs_request"
    /\ Cardinality(ApiIdx) >= 2
    /\ log[FirstApi].status = 401
    /\ log[RetryApi].status = 401

\* the first attempt was answered 401 and the retry with a success
RetrySucceeded ==
    /\ frame.op = "cs_request"
    /\ Cardinality(ApiIdx) >= 2
    /\ log[FirstApi].status = 401
    /\ log[RetryApi].status \in 1..399

\* ------------------------------------------------------------------ C1

\* C1 (as amended): when the first attempt and the retry of one
\* authenticated request are both answered 401, the call is over with
\* exactly two request attempts, authenticate() was called exactly once
\* between them and at most once before the first one, and the caller gets
\* the Unauthorized of the first 401.
C1_RetryOnceRaisesFirst ==
    Both401 =>
        /\ pc = "idle"
        /\ Cardinality(ApiIdx) = 2
        /\ Cardinality({i \in AuthCallIdx : FirstApi < i /\ i < RetryApi}) = 1
        /\ Cardinality({i \in AuthCallIdx : i < FirstApi}) <= 1
        /\ Cardinality(AuthCallIdx) = (IF log[1].kind = "authenticate" THEN 2 ELSE 1)
        /\ outcome = Raised(Exc("Unauthorized", 401, FirstApi))

\* C1 as stated: ... exactly two authentication attempts occur.
C1_TwoAuthentications ==
    Both401 =>
        /\ Cardinality(ApiIdx) = 2
        /\ Cardinality(AuthCallIdx) = 2
        /\ outcome = Raised(Exc("Unauthorized", 401, FirstApi))

\* both attempts of a call that had to authenticate first were answered 401
C1_Witness == Both401 /\ pc = "idle" /\ Cardinality(AuthCallIdx) = 2

\* ------------------------------------------------------------------ C2

C3_NoRetryOnOtherErrors ==
    [][(/\ pc = "req_first"
        /\ Len(log') >= Len(log)
        /\ log'[Len(log)].status >= 400
        /\ log'[Len(log)].status # 401)
       => /\ pc' = "idle"
          /\ Len(log') = Len(log)
          /\ Cardinality(ApiIdx) = 1
          /\ self' = self
          /\ outcome'.status = "raised"
          /\ outcome'.exc.kind # "Unauthorized"
          /\ outcome'.exc.code = log'[Len(log)].status
          /\ outcome'.exc.req = Len(log)]_vars

\* a first attempt was refused (400, "Connection refused") and ended the call
C3_Witness ==
    /\ pc = "idle"
    /\ frame.op = "cs_request"
    /\ Cardinality(ApiIdx) = 1
    /\ outcome.status = "raised"
    /\ outcome.exc.kind = "ConnectionRefused"
    /\ self.auth_token # NULL

\* ------------------------------------------------------------------ C4

\* C4: between operations, on a client without bypass_url and on which
\* set_management_url was never called, a management_url comes with an
\* auth_token.
C4_ManagementUrlHasToken ==
    (pc = "idle" /\ self.bypass_url = NoUrl /\ ~hist.url_set)
        => (self.management_url # NoUrl => self.auth_token # NULL)

\* ------------------------------------------------------------------ C5

\* C5: when authenticate() has returned without raising, management_url
\* and auth_token are both set.
C5_AuthenticatedHasBoth ==
    (pc = "idle" /\ frame.op = "authenticate" /\ outcome.status = "returned")
        => (self.management_url # NoUrl /\ self.auth_token # NULL)

\* ------------------------------------------------------------------ C6

\* a step in which the caller invokes the operation op
Invokes(op) == pc = "idle" /\ hist'.ops = hist.ops + 1 /\ frame'.op = op

NothingSent(l) == \A i \in DOMAIN l : l[i].kind \in {"authenticate", "unauthenticate"}

\* authenticate() was a no-op: it returned, sent nothing, and the session
\* fields are as they were
ShortCircuited ==
    /\ pc' = "idle"
    /\ outcome' = Returned(0)
    /\ NothingSent(log')
    /\ self'.auth_token = self.auth_token
    /\ self'.management_url = self.management_url
    /\ self'.tenant_id = self.tenant_id
    /\ self'.service_catalog = self.service_catalog

\* C7 (as amended): when auth_url is set and auth_token and management_url
\* are both set, authenticate() sends nothing, returns normally and leaves
\* auth_token, management_url, tenant_id and service_catalog unchanged.
C7_ShortCircuitWithAuthUrl ==
    [][(/\ Invokes("authenticate")
        /\ self.auth_token # NULL
        /\ self.management_url # NoUrl
        /\ self.auth_url # NoUrl)
       => ShortCircuited]_vars

\* C7 as stated: whenever auth_token and management_url are both set,
\* authenticate() sends nothing, returns normally and changes nothing.
C7_ShortCircuit ==
    [][(/\ Invokes("authenticate")
        /\ self.auth_token # NULL
        /\ self.management_url # NoUrl)
       => ShortCircuited]_vars

\* a second authenticate() right after a successful one returned at once
C7_Witness ==
    /\ pc = "idle"
    /\ frame.op = "authenticate"
    /\ ~frame.first
    /\ outcome = Returned(0)
    /\ NothingSent(log)
    /\ ~self.service_catalog.none
    /\ self.auth_token # NULL
    /\ self.management_url # NoUrl

\* ------------------------------------------------------------------ C8

\* authenticate() is called in this step
CallsAuthenticate ==
    \E i \in DOMAIN log' :
        log'[i].kind = "authenticate" /\ (pc = "idle" \/ i > Len(log))

\* C8: a call of authenticate() on a client without auth_url -- by the
\* caller, by _cs_request before its first attempt, or by the 401 handler
\* -- raises AuthorizationFailure to the caller in that same step: no
\* authentication request is sent, nothing is retried, and authenticate()
\* changes no session field (in the 401 handler the session is as
\* unauthenticate() left it).
C8_NoAuthUrlFailsAtOnce ==
    [][(self.auth_url = NoUrl /\ CallsAuthenticate)
       => /\ pc' = "idle"
          /\ outcome' = Raised(Exc("AuthorizationFailure", 0, 0))
          /\ AuthReqIdx' = {}
          /\ Len(log') = (IF pc = "idle" THEN 1 ELSE Len(log) + 2)
          /\ self' = (IF pc = "idle" THEN self
                      ELSE [unauthenticate(self) EXCEPT !.keyring_saved = FALSE])]_vars

\* the 401 handler called authenticate() on a client without auth_url
C8_Witness ==
    /\ pc = "idle"
    /\ self.auth_url = NoUrl
    /\ frame.op = "cs_request"
    /\ Cardinality(ApiIdx) = 1
    /\ log[FirstApi].status = 401
    /\ outcome = Raised(Exc("AuthorizationFailure", 0, 0))

\* ------------------------------------------------------------------ C9

\* the URL get_service_url holds for the configured service type
MemoUrl == (CHOOSE p \in self.services_url : p[1] = self.service_type)[2]

\* the first attempt for a non-null path is on the wire
FirstAttemptSent == pc = "req_first" /\ frame.path # PathNone

\* C9 (as amended): the first attempt for a non-null path goes to
\* management_url + path if a bypass URL is configured, otherwise to the
\* URL get_service_url holds for the configured service type + path if a
\* catalog is present, otherwise to management_url + path.
C9_UrlPriority ==
    FirstAttemptSent =>
        /\ log[Len(log)].url = frame.url
        /\ IF self.bypass_url # NoUrl
           THEN frame.url = self.management_url \o frame.path
           ELSE IF ~self.service_catalog.none
           THEN /\ \E p \in self.services_url : p[1] = self.service_type
                /\ frame.url = MemoUrl \o frame.path
           ELSE frame.url = self.management_url \o frame.path

\* C9 as stated: ... to bypass_url + path if a bypass URL is configured ...
C9_BypassUrlFirst ==
    FirstAttemptSent =>
        IF self.bypass_url # NoUrl
        THEN frame.url = self.bypass_url \o frame.path
        ELSE IF ~self.service_catalog.none
        THEN /\ \E p \in self.services_url : p[1] = self.service_type
             /\ frame.url = MemoUrl \o frame.path
        ELSE frame.url = self.management_url \o frame.path

\* a request on a client with a bypass URL, a catalog and another
\* management_url than the bypass URL
C9_Witness ==
    /\ FirstAttemptSent
    /\ self.bypass_url # NoUrl
    /\ self.management_url # self.bypass_url

\* ------------------------------------------------------------------ C10

\* the first operation on a client constructed with a bypass URL is an
\* authenticated request for a path
FirstRequestWithBypass ==
    /\ frame.op = "cs_request"
    /\ frame.first
    /\ frame.path # PathNone
    /\ self.bypass_url # NoUrl

\* C10 (as amended): on a client constructed with a bypass_url, the first
\* authenticated request for path p puts its API request on the wire first,
\* to exactly bypass_url + p, with no authenticate() call, no
\* authentication request and no catalog resolution before it; it is the
\* only API request of the call unless it is answered 401.
C10_BypassFirstRequest ==
    FirstRequestWithBypass =>
        /\ Len(log) >= 1
        /\ log[1].kind = "api"
        /\ log[1].url = self.bypass_url \o frame.path
        /\ pc = "req_first" => (self.services_url = {} /\ self.service_catalog.none)
        /\ log[1].status \notin {0, 401} => (pc = "idle" /\ Len(log) = 1)

\* C10 as stated: ... sends exactly one API request ...
C10_ExactlyOneRequest ==
    FirstRequestWithBypass =>
        /\ Len(log) >= 1
        /\ log[1].kind = "api"
        /\ log[1].url = self.bypass_url \o frame.path
        /\ Cardinality(ApiIdx) = 1

\* the first request of a bypass client was answered and returned
C10_Witness ==
    /\ FirstRequestWithBypass
    /\ pc = "idle"
    /\ outcome = Returned(1)
    /\ log[1].url = <<"http://", "override", "/", "v2", "/", "x", "/", "servers">>

\* ------------------------------------------------ reading a step's response

\* the request in flight is answered in this step, with the status of resp
Answered(resp) ==
    /\ Len(log) >= 1
    /\ Len(log') >= Len(log)
    /\ log[Len(log)].status = 0
    /\ log'[Len(log)].status = resp.status

\* ------------------------------------------------------------------ C11

\* an authenticated request for a path that began by authenticating with
\* the token given to the constructor, on a client without proxy token
PresetTokenRequest ==
    /\ frame.op = "cs_request"
    /\ frame.path # PathNone
    /\ self.proxy_token = NULL
    /\ Len(log) >= 2
    /\ log[1].kind = "authenticate"
    /\ log[2].kind = "auth_v2"
    /\ log[2].cred = PresetToken

MissingHeader(resp) ==
    resp.status \in {200, 204} /\ (resp.mgmt = NoUrl \/ resp.token = NULL)

\* the URL of the fallback: auth_url, with "/v2.0" appended if it has none
FallbackUrl(u) == IF HasV20(u) THEN u ELSE u \o <<"/", "v2.0">>

\* the v1 GET at position i of the log was answered 200/204 and followed by
\* the fallback POST, which is sent exactly when a header was missing
FellBackAt(i) ==
    /\ i \in DOMAIN log
    /\ i + 1 \in DOMAIN log
    /\ log[i].kind = "auth_v1"
    /\ log[i].status \in {200, 204}
    /\ log[i + 1].kind = "auth_v2"

\* the body of a 200 response lacks a key that extraction needs
LacksKey(resp) == resp.status = 200 /\ ~resp.body.wellformed

\* C12 (as amended): a v1 response with status 200 or 204 that lacks one of
\* the two headers makes _v1_auth raise AuthorizationFailure (no crash);
\* authenticate() catches it and sends exactly one v2 POST to auth_url
\* (+ "/v2.0" if absent) + "/tokens", and such a POST is sent in no other
\* case.  The response to that POST decides the outcome and no further
\* authentication request follows: AuthorizationFailure reaches the caller
\* exactly when its 200 body lacks a required key, a status >= 400 raises
\* the typed error of that status, and a 200 with a catalog that resolves
\* completes the authentication.
C12_MissingHeaderFallsBack ==
    /\ [][\A resp \in V1Responses :
            (/\ pc = "auth_v1"
             /\ Answered(resp)
             /\ Becomes(v1_response(Received(resp), resp)))
            => /\ MissingHeader(resp) <=> pc' = "auth_fallback"
               /\ MissingHeader(resp)
                     => /\ outcome' = NoOutcome
                        /\ Len(log') = Len(log) + 1
                        /\ log'[Len(log')] =
                              Ev("auth_v2",
                                 FallbackUrl(frame.auth_url) \o <<"/", "tokens">>,
                                 NULL, v2_cred(self'))]_vars
    /\ [][\A resp \in V2Responses(RedirectUrl) :
            (/\ pc = "auth_fallback"
             /\ Answered(resp)
             /\ Becomes(fallback_response(Received(resp), resp)))
            => /\ AuthReqIdx' = AuthReqIdx
               /\ outcome'.exc.kind = "AuthorizationFailure" <=> LacksKey(resp)
               /\ resp.status >= 400
                     => /\ outcome'.status = "raised"
                        /\ outcome'.exc.code = resp.status
               /\ (/\ resp.status = 200
                   /\ resp.body.wellformed
                   /\ url_for(resp.body, self.service_type, self.region_name,
                              self.endpoint_type).exc = NoExc)
                     => /\ outcome'.status # "raised"
                        /\ self'.auth_token = resp.body.token
                        /\ self'.management_url # NoUrl]_vars

\* C12 as stated: an authenticate() whose v1 response had status 200 or 204
\* but lacked a header ends with AuthorizationFailure raised to the caller.
C12_MissingHeaderRaises ==
    (pc = "idle" /\ frame.op = "authenticate" /\ \E i \in DOMAIN log : FellBackAt(i))
        => outcome = Raised(Exc("AuthorizationFailure", 0, 0))

\* authenticate() returned normally although the v1 response (204) lacked
\* a header: the fallback POST was answered 200 with a catalog
C12_Witness ==
    /\ pc = "idle"
    /\ frame.op = "authenticate"
    /\ FellBackAt(2)
    /\ log[2].status = 204
    /\ log[3].url = <<"http://", "nova", ":", "8774", "/", "v1.0", "/", "v2.0",
                      "/", "tokens">>
    /\ log[3].status = 200
    /\ outcome = Returned(0)
    /\ self.auth_token = "tok2"

\* ------------------------------------------------------------------ C13

\* C13: a 305 answer to an authentication request (the GET of the v1 loop,
\* the POST of the v2 loop, the POST of the v1-to-v2 fallback) is followed
\* by one further authentication request of the same kind, sent to the
\* location the response names.
C13_RedirectFollowed ==
    [][\A resp \in V1Responses \cup V2Responses(RedirectUrl) :
         (/\ pc \in {"auth_v1", "auth_v2", "auth_fallback"}
          /\ resp.status = 305
          /\ Len(log') >= Len(log)
          /\ log'[Len(log)].status = 305
          /\ resp \in (IF pc = "auth_v1" THEN V1Responses
                       ELSE V2Responses(RedirectUrl)))
         => /\ Len(log') = Len(log) + 1
            /\ log'[Len(log')].kind = log[Len(log)].kind
            /\ log'[Len(log')].url =
                  (IF pc = "auth_v1" THEN resp.location
                   ELSE resp.location \o <<"/", "tokens">>)]_vars

\* ------------------------------------------------------------------ C14

\* a client in proxy-token mode without bypass URL
ProxyMode == self.proxy_token # NULL /\ self.bypass_url = NoUrl

\* authenticate(), called by the caller, sent requests and returned
AuthenticateSucceeded ==
    /\ pc = "idle"
    /\ frame.op = "authenticate"
    /\ outcome = Returned(0)
    /\ ~NothingSent(log)

EndpointsIdx == {i \in DOMAIN log : log[i].kind = "endpoints"}

\* C15: every endpoint lookup of proxy-token mode is sent to port 35357 of
\* the auth host, whether or not auth_url names a port.
C15_LookupOnAdminPort ==
    \A i \in EndpointsIdx : PortOf(log[i].url) = "35357"

\* ------------------------------------------------------------------ C17

\* the state after the auth service's response resp to the request in
\* flight, which _extract_service_catalog processes
AfterCatalogResponse(resp) ==
    CASE pc = "auth_v2" -> v2_response(Received(resp), resp)
      [] pc = "auth_fallback" -> fallback_response(Received(resp), resp)
      [] OTHER -> endpoints_response(Received(resp), resp)

\* the URL the catalog of resp holds for the configured service type
ResolvedFrom(resp) ==
    url_for(resp.body, self.service_type, self.region_name, self.endpoint_type)

\* C17: an authentication response that brings a catalog replaces the
\* catalog and the memoized service URLs with it: afterwards management_url
\* is the URL resolved from the new catalog, and so is the base URL of the
\* request that follows the authentication.
C17_FreshCatalogInvalidatesMemo ==
    [][\A resp \in V2Responses(RedirectUrl) :
         (/\ pc \in {"auth_v2", "auth_fallback", "auth_fetch"}
          /\ self.bypass_url = NoUrl
          /\ resp.status = 200
          /\ resp.body.wellformed
          /\ ResolvedFrom(resp).exc = NoExc
          /\ Answered(resp)
          /\ Becomes(AfterCatalogResponse(resp)))
         => /\ self'.service_catalog = resp.body
            /\ self'.management_url = rstrip(ResolvedFrom(resp).url)
            /\ (pc' = "req_first" /\ frame.path # PathNone)
                  => log'[Len(log')].url =
                        rstrip(ResolvedFrom(resp).url) \o frame.path]_vars

\* ------------------------------------------------------------------ C18

\* the catalog of resp is resolved: no URL is memoized for the configured
\* service type
Resolves == \A p \in self.services_url : p[1] # self.service_type

\* the endpoints of resp's catalog that match the client's filter
MatchingIn(resp) ==
    Matching(resp.body, self.service_type, self.region_name, self.endpoint_type)

\* authenticate() raised exc when the response arrived, and nothing was
\* sent after it
RaisedAtOnce(exc) ==
    /\ pc' = "idle"
    /\ outcome' = Raised(exc)
    /\ Len(log') = Len(log)

\* C18: when the catalog of a v2 authentication response is resolved and
\* matches more than one endpoint, authenticate() raises AmbiguousEndpoints;
\* when it matches none, EndpointNotFound; both reach the caller as they
\* are, in the step that received the response, with no further request.
\* A body that lacks a required key raises AuthorizationFailure.
C18_CatalogErrorsPropagate ==
    [][\A resp \in V2Responses(RedirectUrl) :
         (/\ pc \in {"auth_v2", "auth_fallback"}
          /\ resp.status = 200
          /\ Answered(resp)
          /\ Becomes(AfterCatalogResponse(resp)))
         => /\ (resp.body.wellformed /\ Resolves /\ Len(MatchingIn(resp)) > 1)
                  => RaisedAtOnce(Exc("AmbiguousEndpoints", 0, 0))
            /\ (resp.body.wellformed /\ Resolves /\ Len(MatchingIn(resp)) = 0)
                  => RaisedAtOnce(Exc("EndpointNotFound", 0, 0))
            /\ ~resp.body.wellformed
                  => RaisedAtOnce(Exc("AuthorizationFailure", 0, 0))]_vars

\* the authentication before a request's first attempt ended with
\* AmbiguousEndpoints: the request was never sent
C18_Witness ==
    /\ pc = "idle"
    /\ frame.op = "cs_request"
    /\ outcome = Raised(Exc("AmbiguousEndpoints", 0, 0))
    /\ ApiIdx = {}
    /\ log[Len(log)].kind = "auth_v2"
    /\ log[Len(log)].status = 200

\* ------------------------------------------------------------------ C19

\* the error request() raises for a response, per the status table
TypedError(resp, req) ==
    IF resp.status = 400 /\ resp.text # "" /\ MentionsRefusal(resp.text)
    THEN Exc("ConnectionRefused", 400, req)
    ELSE Exc(StatusKind(resp.status), resp.status, req)

\* C19: request() returns (response, body) exactly for the statuses below
\* 400, the body being the decoded JSON or None when the text is empty or
\* not valid JSON; for a status >= 400 it raises the typed error of that
\* status, ConnectionRefused in place of BadRequest for a 400 whose
\* non-empty text contains "Connection refused" or "actively refused".
\* Seen at the API requests of _cs_request, whose 401 handler is the one
\* place that does not pass request()'s error on.
C19_RequestOutcome ==
    [][\A resp \in ApiResponses :
         (/\ pc \in {"req_first", "req_retry"}
          /\ Answered(resp)
          /\ \/ pc = "req_first" /\ Becomes(first_response(Received(resp), resp))
             \/ pc = "req_retry" /\ Becomes(retry_response(Received(resp), resp)))
         => /\ request(resp, Len(log)) = NoExc <=> resp.status < 400
            /\ resp.status < 400
                  => /\ outcome' = Returned(Len(log))
                     /\ frame'.body = (IF resp.text \in {"", "not json"}
                                       THEN NULL ELSE "decoded")
            /\ resp.status >= 400
                  => /\ request(resp, Len(log)) = TypedError(resp, Len(log))
                     /\ resp.status # 401
                           => outcome' = Raised(TypedError(resp, Len(log)))]_vars

\* a 200 whose text is not JSON was returned with a null body
C19_Witness ==
    /\ pc = "idle"
    /\ frame.op = "cs_request"
    /\ outcome = Returned(1)
    /\ log[1].status = 200
    /\ frame.body = NULL

\* ------------------------------------------------------------------ C16

\* the save() calls the client made on its saver
SaveCalls == self.keyring_saver.calls

\* C16: the client calls the saver only at the end of an authentication
\* that succeeded -- authenticate() found token and management URL already
\* set, or the response it received in this step has a success status --
\* only with token, management URL and tenant id all non-null, and not
\* with the values of the call before; a failed authentication makes no
\* call.
C16_SaveOnlyAfterSuccess ==
    [][Len(SaveCalls') > Len(SaveCalls)
       => /\ SaveCalls' = Append(SaveCalls, <<self'.auth_token,
                                               self'.management_url,
                                               self'.tenant_id>>)
          /\ self'.auth_token # NULL
          /\ self'.management_url # NoUrl
          /\ self'.tenant_id # NULL
          /\ pc # "idle" => log'[Len(log)].status \in {200, 201, 204}
          /\ Len(SaveCalls) > 0 => SaveCalls'[Len(SaveCalls')] # SaveCalls[Len(SaveCalls)]]_vars

\* ------------------------------------------------------------------ C20

\* the logged requests that carried an X-Auth-Token header
TokenIdx == {i \in DOMAIN log : CarriesToken(log[i].kind)}

\* the strings a REQ line shows
Shown(line) ==
    {line.curl[k] : k \in DOMAIN line.curl}
        \cup (IF line.header = NULL THEN {}
              ELSE {line.header[k] : k \in DOMAIN line.header})
        \cup (IF line.data = NULL THEN {}
              ELSE {line.data[k] : k \in DOMAIN line.data})

\* a line with its X-Auth-Token value blanked
Otherwise(line) == [line EXCEPT !.header = NULL]

\* C20: with debug logging on, the line logged for a request that carries
\* an X-Auth-Token header does not show the token; it shows "{SHA1}" and
\* the SHA-1 digest of the token in its place, so equal tokens are shown
\* alike, and two requests that differ in nothing but the token are logged
\* alike but for that value
C20_TokenRedacted ==
    \A i \in TokenIdx :
        /\ log[i].token \notin Shown(log[i].dbg)
        /\ log[i].token \in DOMAIN SHA1
        /\ log[i].dbg.header = <<"{SHA1}", SHA1[log[i].token]>>
        /\ \A j \in TokenIdx :
              /\ log[j].token = log[i].token
                    => log[j].dbg.header = log[i].dbg.header
              /\ (log[j].kind = log[i].kind /\ log[j].url = log[i].url)
                    => Otherwise(log[j].dbg) = Otherwise(log[i].dbg)

\* two requests to one URL were logged with different tokens
C20_Witness ==
    /\ self.http_log_debug
    /\ \E i, j \in TokenIdx :
          /\ log[i].url = log[j].url
          /\ log[i].token # log[j].token
          /\ log[i].dbg.header # log[j].dbg.header
          /\ \E k \in TokenIdx : k # i /\ log[k].token = log[i].token

\* ------------------------------------------------------------------ C21

\* the service URLs that have an adapter in the pool
Pool == {self.transport.adapters[k] : k \in DOMAIN self.transport.adapters}

\* the requests of the call's log
ReqIdx == {i \in DOMAIN log : log[i].kind \in {"api", "auth_v1", "auth_v2", "endpoints"}}

\* this step put a request on the wire: the operation now waits for the
\* response to the last entry of the log
Sends == pc' # "idle"

\* C21: with connection pooling enabled, the pool holds one adapter per
\* origin and no origin twice; a request to an origin that has no adapter
\* adds one for it and nothing else changes the pool, so no adapter is
\* removed or replaced; every request goes through the adapter of its
\* origin, the same one whenever requests come back to that origin
C21_OneAdapterPerOrigin ==
    /\ [](self.transport.pool =>
            /\ \A k, l \in DOMAIN self.transport.adapters :
                  self.transport.adapters[k] = self.transport.adapters[l] => k = l
            /\ \A i \in ReqIdx :
                  /\ Origin(log[i].url) \in Pool
                  /\ log[i].adapter = AdapterOf(self.transport.adapters,
                                                Origin(log[i].url))
            /\ \A i, j \in ReqIdx :
                  (log[i].adapter = log[j].adapter)
                      <=> (Origin(log[i].url) = Origin(log[j].url)))
    /\ [][self.transport.pool =>
            IF Sends
            THEN LET o == Origin(log'[Len(log')].url)
                 IN  /\ self'.transport.adapters =
                            IF o \in Pool THEN self.transport.adapters
                            ELSE Append(self.transport.adapters, o)
                     /\ self'.transport.mounted =
                            AdapterOf(self'.transport.adapters, o)
            ELSE self'.transport.adapters = self.transport.adapters]_vars

\* requests went to one origin, then to another, then back to the first
C21_Witness ==
    /\ self.transport.pool
    /\ \E i, j, k \in ReqIdx :
          /\ i < j /\ j < k
          /\ Origin(log[i].url) = Origin(log[k].url)
          /\ Origin(log[i].url) # Origin(log[j].url)
          /\ log[i].adapter = log[k].adapter
          /\ log[i].adapter # log[j].adapter
          /\ log[i].session # log[k].session
          /\ Len(self.transport.adapters) = 2

\* ------------------------------------------------------------------ C22

\* C22 (as amended): with connection pooling enabled, a request to an
\* origin other than that of the request before it closes the active
\* session and makes a new one, on which the pooled adapter of the new
\* origin is mounted, while a request to the same origin keeps the
\* session, so no session sends to two origins; with pooling disabled no
\* request closes or makes a session: the session opened by
\* open_session(), if any, sends every request whatever its origin
C22_SessionFollowsOrigin ==
    /\ [](self.transport.pool =>
            \A i, j \in ReqIdx :
                log[i].session = log[j].session
                    => Origin(log[i].url) = Origin(log[j].url))
    /\ [][Sends =>
            LET t == self.transport
                o == Origin(log'[Len(log')].url)
            IN  /\ log'[Len(log')].session = self'.transport.session
                /\ IF t.pool /\ t.current_url # o
                   THEN /\ self'.transport.session = t.made + 1
                        /\ self'.transport.made = t.made + 1
                        /\ self'.transport.closed =
                               t.closed \cup (IF t.session # 0 THEN {t.session} ELSE {})
                        /\ self'.transport.current_url = o
                        /\ self'.transport.mounted =
                               AdapterOf(self'.transport.adapters, o)
                   ELSE self'.transport = t]_vars

\* C22 as stated: without a pool an open session is not used for two
\* origins, and with a pool a request keeps the active session
C22_AsStated ==
    /\ [](~self.transport.pool =>
            \A i, j \in ReqIdx :
                (log[i].session = log[j].session /\ log[i].session # 0)
                    => Origin(log[i].url) = Origin(log[j].url))
    /\ [][(Sends /\ self.transport.pool /\ self.transport.session # 0)
            => self'.transport.session = self.transport.session]_vars

\* without a pool, the session a caller opened sent requests to two origins
C22_Witness ==
    /\ ~self.transport.pool
    /\ self.transport.session # 0
    /\ self.transport.closed = {}
    /\ \E i, j \in ReqIdx :
          /\ Origin(log[i].url) # Origin(log[j].url)
          /\ log[i].session = self.transport.session
          /\ log[j].session = self.transport.session

\* ------------------------------------------------------------------ C23

\* the first caller is between unauthenticate() and the end of
\* authenticate() in the handler of a 401
InReauth == pc = "auth_v2" /\ frame.ret = "cs_retry"

\* the second caller has passed the test of line 406 and has not yet sent
BuildsRequest == other.pc \in {"cs_build", "cs_header"}

\* the first caller has run unauthenticate() in its call
Unauthenticated == \E i \in DOMAIN log : log[i].kind = "unauthenticate"

\* the second caller's first attempt, sent in this step
OtherSends == other.pc = "cs_header" /\ other'.pc = "req_first"

\* C23: two callers share a client without a lock.  While the first is
\* between unauthenticate() and the end of authenticate() after a 401 and
\* the second is building its request, the session is torn: auth_token and
\* management_url are null.  The second caller then sends its request,
\* built for the URL of the old session, with a null X-Auth-Token, or fails
\* with a TypeError when it has to read management_url; and it does either
\* only after the first caller has run unauthenticate()
C23_TornSession ==
    /\ []((InReauth /\ BuildsRequest)
            => self.auth_token = NULL /\ self.management_url = NoUrl)
    /\ [][(InReauth /\ OtherSends)
            => /\ other'.log[Len(other'.log)].token = NULL
               /\ other'.log[Len(other'.log)].url = other.frame.url
               /\ other.frame.url # NoUrl]_vars
    /\ [][(InReauth /\ other.pc = "cs_build" /\ other' # other
              /\ self.bypass_url # NoUrl)
            => other'.outcome = Raised(Exc("TypeError", 0, 0))]_vars
    /\ [][(\/ OtherSends /\ other'.log[Len(other'.log)].token = NULL
           \/ other.pc = "cs_build"
                 /\ other'.outcome = Raised(Exc("TypeError", 0, 0)))
            => Unauthenticated]_vars

\* the second caller sent its request without a token while the first
\* caller waits for the answer to its re-authentication
C23_Witness ==
    /\ InReauth
    /\ other.pc = "req_first"
    /\ other.frame.url # NoUrl
    /\ other.log[Len(other.log)].kind = "api"
    /\ other.log[Len(other.log)].token = NULL
    /\ log[1].token # NULL

\* ------------------------------------------------------------------ C24

\* v<digits>: the path parts that name a version by its number
VNumber == {"v1", "v2", "v3", "v10"}

\* the URL ends in /v<digits>/<tenant>
EndsInVersionTenant(u) ==
    /\ Len(u) >= 4
    /\ u[Len(u)] # "/"
    /\ u[Len(u) - 1] = "/"
    /\ u[Len(u) - 2] \in VNumber
    /\ u[Len(u) - 3] = "/"

\* C24: a request for the path None goes to the management URL without its
\* trailing /v<digits>/<tenant>, whatever the version number and the
\* tenant identifier
C24_DiscoveryAtRoot ==
    [][(frame'.op = "cs_request" /\ frame'.path = PathNone /\ pc' = "req_first"
          /\ pc # "req_first" /\ EndsInVersionTenant(self'.management_url))
         => log'[Len(log')].url =
                SubSeq(self'.management_url, 1, Len(self'.management_url) - 3)]_vars

\* ------------------------------------------------------------------ C25

\* the operation waits for the answer of the auth service
AuthPcs == {"auth_v1", "auth_v2", "auth_fallback", "auth_fetch"}

\* the status of the response this step received
StatusNow == log'[Len(log)].status

\* this step received a response
Receives == pc # "idle" /\ Len(log) >= 1 /\ Len(log') >= Len(log) /\ log[Len(log)].status = 0

\* the operation ended in this step with an error
Fails == pc' = "idle" /\ outcome'.status = "raised"

\* the typed error of an error status received in this step
ErrorNow ==
    Exc(IF outcome'.exc.kind = "ConnectionRefused" /\ StatusNow = 400
        THEN "ConnectionRefused" ELSE StatusKind(StatusNow),
        StatusNow, Len(log))

\* C25: no error is swallowed.  An error status ends the operation with an
\* error, but for the 401 of the first attempt, which starts the recovery.
\* In the recovery the caught error is the 401 of the first attempt; an
\* Unauthorized of the re-authentication or of the retry is replaced by it,
\* and every other error reaches the caller as itself.  An Unauthorized of
\* the authentication that precedes the first attempt reaches the caller
\* as itself, with no API request sent and no second authentication
C25_ErrorsPropagate ==
    [][Receives =>
         /\ (StatusNow >= 400 /\ ~(pc = "req_first" /\ StatusNow = 401)) => Fails
         /\ (pc \in AuthPcs \cup {"req_retry"} /\ frame.ret = "cs_retry")
               => /\ frame.e = from_response(401, FirstApi)
                  /\ log[FirstApi].status = 401
                  /\ Fails => (outcome'.exc.kind = "Unauthorized"
                                  => outcome'.exc = frame.e)
                  /\ (StatusNow >= 400 /\ StatusNow # 401) => outcome' = Raised(ErrorNow)
                  /\ StatusNow = 401 => outcome' = Raised(frame.e)
         /\ (pc = "req_first" /\ StatusNow = 401 /\ Fails)
               => /\ outcome'.exc.kind # "Unauthorized"
                  /\ \E i \in DOMAIN log' : log'[i].kind = "authenticate" /\ i > Len(log)
         /\ (pc \in AuthPcs /\ frame.ret = "cs_first" /\ Fails)
               => /\ StatusNow >= 400 => outcome' = Raised(ErrorNow)
                  /\ outcome'.exc.kind = "Unauthorized"
                        => /\ \A i \in DOMAIN log' :
                                 log'[i].kind \notin {"api", "unauthenticate"}
                           /\ Cardinality({i \in DOMAIN log' :
                                              log'[i].kind = "authenticate"}) = 1
                           /\ outcome'.exc \in {Exc("Unauthorized", 0, 0),
                                                from_response(401, Len(log))}]_vars

\* a re-authentication answered 500 ended the call with that error
C25_Witness ==
    /\ pc = "idle"
    /\ frame.op = "cs_request"
    /\ frame.ret = "cs_retry"
    /\ Cardinality(ApiIdx) = 1
    /\ log[FirstApi].status = 401
    /\ log[Len(log)].kind \in {"auth_v1", "auth_v2"}
    /\ log[Len(log)].status = 500
    /\ outcome = Raised(from_response(500, Len(log)))

\* ------------------------------------------------------------------ C26

\* the call is in, or has been through, the recovery from a 401
Recovers == frame.op = "cs_request" /\ frame.ret = "cs_retry"

\* the token the first attempt carried and the API rejected
Rejected == log[FirstApi].token

\* the token a successful answer of the auth service issues
Issued(resp) == IF pc = "auth_v1" THEN resp.token ELSE resp.body.token

\* the state after the answer resp to the authentication request in flight
AfterAuthResponse(resp) ==
    CASE pc = "auth_v1" -> v1_response(Received(resp), resp)
      [] pc = "auth_v2" -> v2_response(Received(resp), resp)
      [] OTHER -> fallback_response(Received(resp), resp)

\* the retry is sent in the step that receives resp, and with which token
RetriesWith(resp, token) ==
    /\ pc \in {"auth_v1", "auth_v2", "auth_fallback"}
    /\ Recovers
    /\ resp.status \in {200, 204}
    /\ Answered(resp)
    /\ Becomes(AfterAuthResponse(resp))
    /\ pc' = "req_retry"
    /\ log'[Len(log')].token = token

\* C26 (as amended): in the recovery from a 401 the token is discarded and
\* the saved flag reset before authenticate() is called, so the auth
\* service is sent the password and never the rejected token; when the
\* retry goes out with a token the session is in the keyring again if the
\* tenant is known; and on a client without proxy token the retry carries the token
\* the auth service issued, which differs from the rejected one whenever
\* the issued one does
C26_ReauthWithoutRejectedToken ==
    /\ [](Recovers =>
            /\ log[FirstApi].status = 401
            /\ log[FirstApi + 1].kind = "unauthenticate"
            /\ log[FirstApi + 2].kind = "authenticate"
            /\ \A i \in DOMAIN log :
                  (i > FirstApi /\ log[i].kind \in {"auth_v1", "auth_v2"})
                      => log[i].cred = "password" /\ log[i].token = NULL)
    /\ [][(Receives /\ pc = "req_first" /\ StatusNow = 401 /\ pc' \in AuthPcs)
            => /\ self'.auth_token = NULL
               /\ self'.management_url = NoUrl
               /\ ~self'.keyring_saved]_vars
    /\ [][(Recovers /\ pc \in AuthPcs /\ pc' = "req_retry"
              /\ self'.auth_token # NULL /\ self'.tenant_id # NULL)
            => /\ self'.keyring_saved
               /\ block_token(Stored(self'.keyring_saver)) = <<self'.auth_token>>
               /\ block_management_url(Stored(self'.keyring_saver))
                     = self'.management_url]_vars
    /\ [][\A resp \in V2Responses(RedirectUrl) \cup V1Responses :
            (self.proxy_token = NULL /\ RetriesWith(resp, log'[Len(log')].token))
               => /\ log'[Len(log')].token = Issued(resp)
                  /\ Issued(resp) # Rejected
                        => log'[Len(log')].token # Rejected]_vars

\* C26 as stated: the retry carries a token other than the rejected one
\* whenever the auth service issues a new token
C26_RetryTokenDiffers ==
    [][\A resp \in V2Responses(RedirectUrl) \cup V1Responses :
         (RetriesWith(resp, log'[Len(log')].token) /\ Issued(resp) # Rejected)
            => log'[Len(log')].token # Rejected]_vars

\* the recovery replaced a rejected token by a new one, sent it with the
\* retry and wrote it to the keyring
C26_Witness ==
    /\ Recovers
    /\ pc = "req_retry"
    /\ Rejected \in IssuedTokens
    /\ log[RetryApi].token \in IssuedTokens
    /\ log[RetryApi].token # Rejected
    /\ Len(self.keyring_saver.writes) = 2
    /\ block_token(Stored(self.keyring_saver)) = <<log[RetryApi].token>>

\* ------------------------------------------------------------------ C27

\* C27: when authenticate() raises, auth_token, management_url, tenant_id,
\* service_catalog and auth_url have the values they had when it was
\* entered
C27_AtomicOnFailure ==
    [][(pc \in AuthPcs /\ pc' = "idle" /\ outcome'.status = "raised")
         => Session(self') = frame.entry]_vars

\* ------------------------------------------------------------------ C28

\* what is left of a state when the debug log is taken away: the client
\* with http_log_debug off and the requests without their REQ lines
Unlogged(st) ==
    [st EXCEPT !.self.http_log_debug = FALSE,
               !.log = [i \in DOMAIN st.log |->
                          [st.log[i] EXCEPT !.dbg = NoLine, !.rdbg = NoRespLine]]]

\* C28: debug logging only observes.  Whatever the client does next (an
\* operation a caller starts, or the handling of the response to the
\* request in flight), it sends the same requests, has the same outcome
\* and leaves the same session as the same client does with
\* http_log_debug off
C28_DebugObservesOnly ==
    /\ pc = "idle" =>
          /\ \A path \in Paths \cup {PathNone} :
                Unlogged(cs_request(Start("cs_request"), path))
                    = cs_request(Unlogged(Start("cs_request")), path)
          /\ Unlogged(authenticate(Start("authenticate"), "top"))
                = authenticate(Unlogged(Start("authenticate")), "top")
    /\ pc = "req_first" =>
          \A resp \in ApiResponses :
              Unlogged(first_response(Received(resp), resp))
                  = first_response(Unlogged(Received(resp)), resp)
    /\ pc = "req_retry" =>
          \A resp \in ApiResponses :
              Unlogged(retry_response(Received(resp), resp))
                  = retry_response(Unlogged(Received(resp)), resp)
    /\ pc = "auth_v2" =>
          \A resp \in V2Responses(RedirectUrl) :
              Unlogged(v2_response(Received(resp), resp))
                  = v2_response(Unlogged(Received(resp)), resp)
    /\ pc = "auth_v1" =>
          \A resp \in V1Responses :
              Unlogged(v1_response(Received(resp), resp))
                  = v1_response(Unlogged(Received(resp)), resp)
    /\ pc = "auth_fallback" =>
          \A resp \in V2Responses(RedirectUrl) :
              Unlogged(fallback_response(Received(resp), resp))
                  = fallback_response(Unlogged(Received(resp)), resp)
    /\ pc = "auth_fetch" =>
          \A resp \in V2Responses(RedirectUrl) :
              Unlogged(endpoints_response(Received(resp), resp))
                  = endpoints_response(Unlogged(Received(resp)), resp)

\* ------------------------------------------------------------------ C29

\* the strings a RESP line shows
ShownResp(line) ==
    (IF line.header = NULL THEN {} ELSE {line.header})
        \cup (IF line.body = NULL THEN {}
              ELSE {line.body[k] : k \in DOMAIN line.body})

\* what the debug log of the call shows
DebugLog ==
    UNION {Shown(log[i].dbg) \cup ShownResp(log[i].rdbg) : i \in DOMAIN log}

\* the values sent as X-Auth-Token in the call
SentTokens == {log[i].token : i \in TokenIdx} \ {NULL}

\* the passwords sent in the body of an authentication request
SentPasswords ==
    {log[i].cred : i \in {j \in DOMAIN log : log[j].kind = "auth_v2"}}
        \cap {"password"}

\* C29: with debug logging on, no value sent as X-Auth-Token and no
\* password sent in an authentication body is shown anywhere in the debug
\* log: not in a header, a body, a URL or a response
C29_NoSecretInLog ==
    self.http_log_debug => (SentTokens \cup SentPasswords) \cap DebugLog = {}

\* ------------------------------------------------------------------ C30

\* the deprecation warnings printed for an option string
Warnings(o) ==
    {i \in DOMAIN shell.stderr : /\ shell.stderr[i].warning = "deprecated"
                                  /\ shell.stderr[i].option = o}

\* the invocations made with an option string
Uses(o) == {i \in DOMAIN shell.calls : shell.calls[i] = o}

\* the action has a real action: it was built with a class, or with a name
\* the parser knows
HasRealAction ==
    \/ shell.a.real_action.kind = "instance"
    \/ shell.a.real_action_args /\ registry_get(shell.a.real_action.class) # NULL

\* a deprecation warning is printed in the step
Warns(o) ==
    /\ Len(shell'.stderr) > Len(shell.stderr)
    /\ shell'.stderr[Len(shell'.stderr)] = Deprecated(o, shell.a.use)

\* C30: over any sequence of invocations of one DeprecatedAction, the
\* deprecation warning of an option string is printed once, on the first
\* invocation with that option string and on no later one, and the real
\* action, where there is one, is invoked on every invocation with the
\* option string of that invocation
C30_WarnOnceInvokeAlways ==
    /\ [](\A o \in OptionStrings :
            Cardinality(Warnings(o)) = IF Uses(o) = {} THEN 0 ELSE 1)
    /\ [](shell.invoked = IF HasRealAction THEN shell.calls ELSE <<>>)
    /\ [][\A o \in OptionStrings :
            (shell'.calls = Append(shell.calls, o))
                => /\ Warns(o) <=> Uses(o) = {}
                   /\ Uses(o) # {} => shell'.stderr = shell.stderr
                   /\ HasRealAction => shell'.invoked = Append(shell.invoked, o)]_vars

\* an option string was used twice and another one after it, and the real
\* action was invoked each time
C30_Witness ==
    /\ Len(shell.calls) >= 3
    /\ shell.calls[1] = shell.calls[2]
    /\ shell.calls[3] # shell.calls[1]
    /\ shell.a.real_action.kind = "instance"
    /\ Len(shell.invoked) = Len(shell.calls)
    /\ Len(shell.stderr) = 2

====
